---------------------------- MODULE Spec2Model ----------------------------
(***************************************************************************)
(* AnchorPhase: the client-local workout document, its store (loadData /   *)
(* saveData), the template editor (ExerciseSetup), group sharing           *)
(* (GroupManagement) and the App shell that persists every change.         *)
(*                                                                         *)
(* Conventions of the model                                                *)
(*  - a string that the code takes apart (an exercise name) is a sequence  *)
(*    of one-character strings; other strings are opaque TLA+ strings;     *)
(*  - ids produced by generateUniqueId are the positive integers taken     *)
(*    from the counter nextId; ids that come from another browser are      *)
(*    ForeignGroupId and OtherUserId; 0 stands for undefined / "" (falsy); *)
(*  - an optional field that is undefined or absent holds UndefStr         *)
(*    (strings) or UndefNum (numbers); JSON drops such a field and         *)
(*    reading it back yields undefined again, so both are one value;       *)
(*  - a persisted document is NoDoc (nothing stored) or a function from    *)
(*    the keys it has to their values.                                     *)
(***************************************************************************)
EXTENDS Integers, Sequences, FiniteSets, TLC

\* ------------------------------------------------------------------ bounds
MaxExercises == 3
MaxClock == 2
MaxIds == 3
MaxGroups == 2
MaxSets == 1

\* ------------------------------------------------------- program constants
NumDays == 7

\* ------------------------------------------------------------ basic values
Undefined == 0
UndefStr == "undefined"
UndefNum == -1
NoDoc == [nodoc |-> TRUE]

\* Array.prototype.findIndex, 1-based, over the outcomes of the test on the
\* elements; 0 when no element passes
FindIndex(hits) ==
  IF \E i \in 1..Len(hits) : hits[i]
  THEN CHOOSE i \in 1..Len(hits) : hits[i] /\ \A j \in 1..(i - 1) : ~hits[j]
  ELSE 0

\* the outcomes of a test on the elements of an array
Test(s, P(_)) == [i \in 1..Len(s) |-> P(s[i])]

\* ----------------------------------------------------------------- strings
\* the characters of a name are "a", "A", "b", "B" and the space; a pasted
\* plan has the other letters, digits and line breaks as well
toLowerChar(c) ==
  CASE c = "A" -> "a" [] c = "B" -> "b" [] c = "C" -> "c" [] c = "D" -> "d"
    [] c = "E" -> "e" [] c = "F" -> "f" [] c = "G" -> "g" [] c = "H" -> "h"
    [] c = "I" -> "i" [] c = "J" -> "j" [] c = "K" -> "k" [] c = "L" -> "l"
    [] c = "M" -> "m" [] c = "N" -> "n" [] c = "O" -> "o" [] c = "P" -> "p"
    [] c = "Q" -> "q" [] c = "R" -> "r" [] c = "S" -> "s" [] c = "T" -> "t"
    [] c = "U" -> "u" [] c = "V" -> "v" [] c = "W" -> "w" [] c = "X" -> "x"
    [] c = "Y" -> "y" [] c = "Z" -> "z"
    [] OTHER -> c

\* the characters that trim removes
WhiteSpace == {" ", "\n"}

\* String.prototype.toLowerCase
toLowerCase(s) == [i \in 1..Len(s) |-> toLowerChar(s[i])]

RECURSIVE trimStart(_)
trimStart(s) ==
  IF s # <<>> /\ Head(s) \in WhiteSpace THEN trimStart(Tail(s)) ELSE s

RECURSIVE trimEnd(_)
trimEnd(s) ==
  IF s # <<>> /\ s[Len(s)] \in WhiteSpace THEN trimEnd(SubSeq(s, 1, Len(s) - 1)) ELSE s

\* String.prototype.trim
trim(s) == trimEnd(trimStart(s))

\* primary collation weight of a character: the space sorts before the
\* letters, a letter and its capital share a weight
PrimaryWeight(c) ==
  CASE c = " " -> 0
    [] toLowerChar(c) = "a" -> 1
    [] OTHER -> 2

\* tertiary weight: the small letter sorts before its capital
TertiaryWeight(c) == IF c = toLowerChar(c) THEN 0 ELSE 1

RECURSIVE LexCompare(_, _)
LexCompare(x, y) ==
  CASE x = <<>> /\ y = <<>> -> 0
    [] x = <<>> -> -1
    [] y = <<>> -> 1
    [] Head(x) < Head(y) -> -1
    [] Head(x) > Head(y) -> 1
    [] OTHER -> LexCompare(Tail(x), Tail(y))

\* String.prototype.localeCompare: letters first, case breaks ties
localeCompare(a, b) ==
  LET p == LexCompare([i \in 1..Len(a) |-> PrimaryWeight(a[i])],
                      [i \in 1..Len(b) |-> PrimaryWeight(b[i])])
  IN IF p # 0 THEN p
     ELSE LexCompare([i \in 1..Len(a) |-> TertiaryWeight(a[i])],
                     [i \in 1..Len(b) |-> TertiaryWeight(b[i])])

\* ------------------------------------------------- sorting (Array.sort)
\* Array.prototype.sort is stable: an element goes after every element that
\* does not compare greater than it.
RECURSIVE InsertByName(_, _)
InsertByName(e, s) ==
  IF s = <<>> THEN <<e>>
  ELSE IF localeCompare(Head(s).name, e.name) <= 0
       THEN <<Head(s)>> \o InsertByName(e, Tail(s))
       ELSE <<e>> \o s

RECURSIVE SortByName(_)
SortByName(s) ==
  IF s = <<>> THEN <<>>
  ELSE InsertByName(s[Len(s)], SortByName(SubSeq(s, 1, Len(s) - 1)))

RECURSIVE InsertByDate(_, _)
InsertByDate(l, s) ==
  IF s = <<>> THEN <<l>>
  ELSE IF Head(s).date <= l.date
       THEN <<Head(s)>> \o InsertByDate(l, Tail(s))
       ELSE <<l>> \o s

RECURSIVE SortByDate(_)
SortByDate(s) ==
  IF s = <<>> THEN <<>>
  ELSE InsertByDate(s[Len(s)], SortByDate(SubSeq(s, 1, Len(s) - 1)))

\* ------------------------------------------------------------ the document
DocKeys ==
  {"userId", "exercises", "weeklyTemplate", "dailyLogs", "groups",
   "activeSyncedGroupId"}

NoExercise == [id |-> Undefined, name |-> <<>>]

\* JSON.parse(JSON.stringify(template)): a structural copy, day by day and
\* item by item; an undefined field is dropped and reads back as undefined
JSONCopyItem(te) ==
  [exerciseId |-> te.exerciseId, targetSets |-> te.targetSets,
   targetReps |-> te.targetReps, originalIndex |-> te.originalIndex]

JSONCopyDay(d) ==
  [dayOfWeek |-> d.dayOfWeek,
   exercises |-> [j \in 1..Len(d.exercises) |-> JSONCopyItem(d.exercises[j])]]

JSONCopy(template) == [i \in 1..Len(template) |-> JSONCopyDay(template[i])]

\* Array(7).fill(null).map((_, i) => ({ dayOfWeek: i, exercises: [] }))
EmptyTemplate == [i \in 1..NumDays |-> [dayOfWeek |-> i - 1, exercises |-> <<>>]]

\* JSON.stringify(data): a key whose value is undefined is not written
JSONstringify(data) ==
  [k \in {key \in DocKeys : key # "activeSyncedGroupId"
                            \/ data.activeSyncedGroupId # Undefined}
     |-> data[k]]

\* a stored slot of weeklyTemplate that is null
NullSlot == [null |-> TRUE]

\* day?.dayOfWeek ?? i  and  day?.exercises ?? []  (i counts from 0)
RepairSlot(day, i) ==
  [dayOfWeek |-> IF "dayOfWeek" \in DOMAIN day THEN day.dayOfWeek ELSE i,
   exercises |-> IF "exercises" \in DOMAIN day THEN day.exercises ELSE <<>>]

\* loadData that repairs the slots of any stored template, whatever its
\* length
loadDataAnyLength(stored, freshId) ==
  LET has(k) == k \in DOMAIN stored
      weeklyTemplate ==
        IF ~has("weeklyTemplate")
        THEN EmptyTemplate
        ELSE [i \in 1..Len(stored.weeklyTemplate) |->
                RepairSlot(stored.weeklyTemplate[i], i - 1)]
  IN [userId |-> IF has("userId") /\ stored.userId # Undefined
                 THEN stored.userId ELSE freshId,
      exercises |-> IF has("exercises") THEN SortByName(stored.exercises) ELSE <<>>,
      weeklyTemplate |-> weeklyTemplate,
      dailyLogs |-> IF has("dailyLogs") THEN stored.dailyLogs ELSE <<>>,
      groups |-> IF has("groups") THEN stored.groups ELSE <<>>,
      activeSyncedGroupId |->
        IF has("activeSyncedGroupId") THEN stored.activeSyncedGroupId
        ELSE Undefined]

\* loadData; stored is what localStorage holds, freshId what
\* generateUniqueId would return
loadData(stored, freshId) ==
  LET has(k) == k \in DOMAIN stored
      weeklyTemplate ==
        IF ~has("weeklyTemplate") \/ Len(stored.weeklyTemplate) # NumDays
        THEN EmptyTemplate
        ELSE [i \in 1..Len(stored.weeklyTemplate) |->
                RepairSlot(stored.weeklyTemplate[i], i - 1)]
  IN [userId |-> IF has("userId") /\ stored.userId # Undefined
                 THEN stored.userId ELSE freshId,
      exercises |-> IF has("exercises") THEN SortByName(stored.exercises) ELSE <<>>,
      weeklyTemplate |-> weeklyTemplate,
      dailyLogs |-> IF has("dailyLogs") THEN stored.dailyLogs ELSE <<>>,
      groups |-> IF has("groups") THEN stored.groups ELSE <<>>,
      activeSyncedGroupId |->
        IF has("activeSyncedGroupId") THEN stored.activeSyncedGroupId
        ELSE Undefined]

\* saveData sorts data.exercises in place, then writes the whole document:
\* SavedData is the document after the sort, saveData what is written
SavedData(data) == [data EXCEPT !.exercises = SortByName(@)]

saveData(data) == JSONstringify(SavedData(data))

\* addExercise with the names compared as typed
addExerciseCaseSensitive(data, name, freshId) ==
  LET trimmedName == trim(name)
      at == FindIndex(Test(data.exercises, LAMBDA ex : ex.name = trimmedName))
      newExercise == [id |-> freshId, name |-> trimmedName]
  IN IF trimmedName = <<>>
     THEN [newData |-> data, newExercise |-> NoExercise]
     ELSE IF at # 0
     THEN [newData |-> data, newExercise |-> data.exercises[at]]
     ELSE [newData |-> [data EXCEPT !.exercises =
                          SortByName(Append(data.exercises, newExercise))],
           newExercise |-> newExercise]

\* addExercise with the new exercise left at the end of the list
addExerciseUnsorted(data, name, freshId) ==
  LET trimmedName == trim(name)
      at == FindIndex(Test(data.exercises,
                      LAMBDA ex : toLowerCase(ex.name) = toLowerCase(trimmedName)))
      newExercise == [id |-> freshId, name |-> trimmedName]
  IN IF trimmedName = <<>>
     THEN [newData |-> data, newExercise |-> NoExercise]
     ELSE IF at # 0
     THEN [newData |-> data, newExercise |-> data.exercises[at]]
     ELSE [newData |-> [data EXCEPT !.exercises = Append(data.exercises, newExercise)],
           newExercise |-> newExercise]

\* addExercise; freshId is what generateUniqueId would return
addExercise(data, name, freshId) ==
  LET trimmedName == trim(name)
      at == FindIndex(Test(data.exercises,
                      LAMBDA ex : toLowerCase(ex.name) = toLowerCase(trimmedName)))
      newExercise == [id |-> freshId, name |-> trimmedName]
  IN IF trimmedName = <<>>
     THEN [newData |-> data, newExercise |-> NoExercise]
     ELSE IF at # 0
     THEN [newData |-> data, newExercise |-> data.exercises[at]]
     ELSE [newData |-> [data EXCEPT !.exercises =
                          SortByName(Append(data.exercises, newExercise))],
           newExercise |-> newExercise]

updateWeeklyTemplate(data, newTemplate) ==
  [data EXCEPT !.weeklyTemplate = newTemplate,
               !.activeSyncedGroupId = Undefined]

\* desyncActiveGroup that returns the document it was given
desyncActiveGroupKeeps(data) == data

desyncActiveGroup(data) ==
  IF data.activeSyncedGroupId # Undefined
  THEN [data EXCEPT !.activeSyncedGroupId = Undefined]
  ELSE data

\* upsertDailyLog that pushes the log whether or not its date is stored
upsertDailyLogPushes(data, log) ==
  [data EXCEPT !.dailyLogs = SortByDate(Append(data.dailyLogs, log))]

upsertDailyLog(data, log) ==
  LET existingLogIndex == FindIndex(Test(data.dailyLogs, LAMBDA dlog : dlog.date = log.date))
      newLogs == IF existingLogIndex > 0
                 THEN [data.dailyLogs EXCEPT ![existingLogIndex] = log]
                 ELSE Append(data.dailyLogs, log)
  IN [data EXCEPT !.dailyLogs = SortByDate(newLogs)]

\* ------------------------------------------------------------------ groups
\* generateInviteCode draws six characters at random
InviteCodes == {"K7QW2M"}

\* createGroup with the shared template left empty
createGroupEmptyTemplate(appData, groupName, freshId, code, now) ==
  LET trimmedName == trim(groupName)
      newGroup == [id |-> freshId, name |-> trimmedName,
                   ownerId |-> appData.userId, inviteCode |-> code,
                   sharedTemplate |-> EmptyTemplate,
                   lastUpdated |-> now]
  IN IF trimmedName = <<>> THEN appData
     ELSE [appData EXCEPT !.groups = Append(@, newGroup)]

createGroup(appData, groupName, freshId, code, now) ==
  LET trimmedName == trim(groupName)
      newGroup == [id |-> freshId, name |-> trimmedName,
                   ownerId |-> appData.userId, inviteCode |-> code,
                   sharedTemplate |-> JSONCopy(appData.weeklyTemplate),
                   lastUpdated |-> now]
  IN IF trimmedName = <<>> THEN appData
     ELSE [appData EXCEPT !.groups = Append(@, newGroup)]

\* updateGroupSharedTemplate that asks for the group only, not for its owner
updateGroupSharedTemplateAnyOwner(appData, groupId, now) ==
  LET groupIndex == FindIndex(Test(appData.groups, LAMBDA g : g.id = groupId))
  IN IF groupIndex = 0 THEN appData
     ELSE [appData EXCEPT !.groups[groupIndex] =
             [@ EXCEPT !.sharedTemplate = JSONCopy(appData.weeklyTemplate),
                       !.lastUpdated = now]]

updateGroupSharedTemplate(appData, groupId, now) ==
  LET groupIndex == FindIndex(Test(appData.groups,
                      LAMBDA g : g.id = groupId /\ g.ownerId = appData.userId))
  IN IF groupIndex = 0 THEN appData
     ELSE [appData EXCEPT !.groups[groupIndex] =
             [@ EXCEPT !.sharedTemplate = JSONCopy(appData.weeklyTemplate),
                       !.lastUpdated = now]]

\* applyGroupTemplateToUser without the note of the group synced with
applyGroupTemplateUntracked(appData, groupId) ==
  LET at == FindIndex(Test(appData.groups, LAMBDA g : g.id = groupId))
  IN IF at = 0 THEN appData
     ELSE [appData EXCEPT !.weeklyTemplate = JSONCopy(appData.groups[at].sharedTemplate)]

applyGroupTemplateToUser(appData, groupId) ==
  LET at == FindIndex(Test(appData.groups, LAMBDA g : g.id = groupId))
  IN IF at = 0 THEN appData
     ELSE [appData EXCEPT !.weeklyTemplate = JSONCopy(appData.groups[at].sharedTemplate),
                          !.activeSyncedGroupId = appData.groups[at].id]

\* removeGroup that forgets the sync whichever group goes
removeGroupDesyncsAlways(appData, groupId) ==
  [appData EXCEPT
     !.groups = SelectSeq(@, LAMBDA g : g.id # groupId),
     !.activeSyncedGroupId = Undefined]

\* removeGroup that keeps the note of the group synced with
removeGroupKeepsSync(appData, groupId) ==
  [appData EXCEPT !.groups = SelectSeq(@, LAMBDA g : g.id # groupId)]

removeGroup(appData, groupId) ==
  [appData EXCEPT
     !.groups = SelectSeq(@, LAMBDA g : g.id # groupId),
     !.activeSyncedGroupId = IF @ = groupId THEN Undefined ELSE @]

GroupKeys == {"id", "name", "ownerId", "inviteCode", "sharedTemplate", "lastUpdated"}

\* pasted text that JSON.parse rejects
InvalidJSON == [invalid |-> TRUE]

\* !importedGroup[k]: the key is absent or its value is falsy (an array,
\* even an empty one, is truthy)
IsFalsy(json, k) ==
  \/ k \notin DOMAIN json
  \/ k \in {"id", "ownerId", "lastUpdated"} /\ json[k] = Undefined
  \/ k = "name" /\ json[k] = <<>>
  \/ k = "inviteCode" /\ json[k] = ""

ErrParse == "Failed to parse group data. Ensure it's valid JSON."
ErrFormat == "Invalid group data format."
ErrExists == "Group already exists or local version is newer."
NoError == ""

\* addGroupFromImport that hands a newer copy of the group synced with on
\* to the weekly template
addGroupFromImportAutoSync(appData, groupJSON) ==
  IF groupJSON = InvalidJSON
  THEN [newData |-> appData, error |-> ErrParse, importedGroup |-> FALSE]
  ELSE IF \E k \in GroupKeys : IsFalsy(groupJSON, k)
  THEN [newData |-> appData, error |-> ErrFormat, importedGroup |-> FALSE]
  ELSE
    LET importedGroup == [k \in GroupKeys |-> groupJSON[k]]
        existingGroupIndex ==
          FindIndex(Test(appData.groups, LAMBDA g : g.id = importedGroup.id))
    IN IF existingGroupIndex # 0
       THEN IF /\ importedGroup.lastUpdated >
                    appData.groups[existingGroupIndex].lastUpdated
               /\ appData.groups[existingGroupIndex].ownerId # appData.userId
            THEN [newData |->
                    [appData EXCEPT
                       !.groups[existingGroupIndex] = importedGroup,
                       !.weeklyTemplate =
                          IF appData.activeSyncedGroupId = importedGroup.id
                          THEN JSONCopy(importedGroup.sharedTemplate) ELSE @],
                  error |-> NoError, importedGroup |-> TRUE]
            ELSE [newData |-> appData, error |-> ErrExists, importedGroup |-> TRUE]
       ELSE [newData |-> [appData EXCEPT !.groups = Append(@, importedGroup)],
             error |-> NoError, importedGroup |-> TRUE]

\* addGroupFromImport that validates the id of the record only
addGroupFromImportIdOnly(appData, groupJSON) ==
  IF groupJSON = InvalidJSON
  THEN [newData |-> appData, error |-> ErrParse, importedGroup |-> FALSE]
  ELSE IF IsFalsy(groupJSON, "id")
  THEN [newData |-> appData, error |-> ErrFormat, importedGroup |-> FALSE]
  ELSE
    LET importedGroup == groupJSON
        existingGroupIndex ==
          FindIndex(Test(appData.groups, LAMBDA g : g.id = importedGroup.id))
    IN IF existingGroupIndex # 0
       THEN IF /\ importedGroup.lastUpdated >
                    appData.groups[existingGroupIndex].lastUpdated
               /\ appData.groups[existingGroupIndex].ownerId # appData.userId
            THEN [newData |-> [appData EXCEPT !.groups[existingGroupIndex] =
                                                 importedGroup],
                  error |-> NoError, importedGroup |-> TRUE]
            ELSE [newData |-> appData, error |-> ErrExists, importedGroup |-> TRUE]
       ELSE [newData |-> [appData EXCEPT !.groups = Append(@, importedGroup)],
             error |-> NoError, importedGroup |-> TRUE]

\* addGroupFromImport that lets the newer copy win whoever owns the local one
addGroupFromImportNewerWins(appData, groupJSON) ==
  IF groupJSON = InvalidJSON
  THEN [newData |-> appData, error |-> ErrParse, importedGroup |-> FALSE]
  ELSE IF \E k \in GroupKeys : IsFalsy(groupJSON, k)
  THEN [newData |-> appData, error |-> ErrFormat, importedGroup |-> FALSE]
  ELSE
    LET importedGroup == [k \in GroupKeys |-> groupJSON[k]]
        existingGroupIndex ==
          FindIndex(Test(appData.groups, LAMBDA g : g.id = importedGroup.id))
    IN IF existingGroupIndex # 0
       THEN IF importedGroup.lastUpdated >
                 appData.groups[existingGroupIndex].lastUpdated
            THEN [newData |-> [appData EXCEPT !.groups[existingGroupIndex] =
                                                 importedGroup],
                  error |-> NoError, importedGroup |-> TRUE]
            ELSE [newData |-> appData, error |-> ErrExists, importedGroup |-> TRUE]
       ELSE [newData |-> [appData EXCEPT !.groups = Append(@, importedGroup)],
             error |-> NoError, importedGroup |-> TRUE]

addGroupFromImport(appData, groupJSON) ==
  IF groupJSON = InvalidJSON
  THEN [newData |-> appData, error |-> ErrParse, importedGroup |-> FALSE]
  ELSE IF \E k \in GroupKeys : IsFalsy(groupJSON, k)
  THEN [newData |-> appData, error |-> ErrFormat, importedGroup |-> FALSE]
  ELSE
    LET importedGroup == [k \in GroupKeys |-> groupJSON[k]]
        existingGroupIndex ==
          FindIndex(Test(appData.groups, LAMBDA g : g.id = importedGroup.id))
    IN IF existingGroupIndex # 0
       THEN IF /\ importedGroup.lastUpdated >
                    appData.groups[existingGroupIndex].lastUpdated
               /\ appData.groups[existingGroupIndex].ownerId # appData.userId
            THEN [newData |-> [appData EXCEPT !.groups[existingGroupIndex] =
                                                 importedGroup],
                  error |-> NoError, importedGroup |-> TRUE]
            ELSE [newData |-> appData, error |-> ErrExists, importedGroup |-> TRUE]
       ELSE [newData |-> [appData EXCEPT !.groups = Append(@, importedGroup)],
             error |-> NoError, importedGroup |-> TRUE]

\* ------------------------------------------------------------------ inputs
Item(exerciseId, targetSets, targetReps, originalIndex) ==
  [exerciseId |-> exerciseId, targetSets |-> targetSets,
   targetReps |-> targetReps, originalIndex |-> originalIndex]

\* names typed or imported: blank ones, padded ones, names that differ in
\* case only, and names whose typing order is not their sorted order
NameInputs ==
  {<<>>, <<" ">>, <<"a">>, <<"A">>, <<"b">>, <<"B">>, <<" ", "a">>, <<"A", "b">>,
   <<"a", "B">>, <<"b", " ">>}

GroupNameInputs == {<<>>, <<" ">>, <<" ", "b">>}

\* ids of users and groups of other browsers
OtherUserId == 201
ForeignGroupId == 101

TemplateA == [EmptyTemplate EXCEPT ![2].exercises = <<Item(2, 3, "5", UndefNum)>>]
TemplateB == [EmptyTemplate EXCEPT ![2].exercises = <<Item(2, 1, "", 0)>>]
\* a shared template with fewer than seven days
ShortTemplate == <<[dayOfWeek |-> 1, exercises |-> <<Item(2, 2, "5", UndefNum)>>]>>

GroupIdInputs == (3..(MaxIds + 1)) \cup {ForeignGroupId}

\* the export of a group of another user
FullImport ==
  [id |-> ForeignGroupId, name |-> <<"b">>, ownerId |-> OtherUserId,
   inviteCode |-> "K7QW2M", sharedTemplate |-> TemplateB, lastUpdated |-> 1]

\* a later export of that group, after its owner shared a template of one day
NewerImport == [FullImport EXCEPT !.sharedTemplate = ShortTemplate, !.lastUpdated = 2]

WellFormedImports == {FullImport, NewerImport}

\* a record that lacks a key, or holds a falsy value in one
BrokenImports ==
  {[k \in GroupKeys \ {"sharedTemplate"} |-> FullImport[k]],
   [FullImport EXCEPT !.id = Undefined], [FullImport EXCEPT !.name = <<>>],
   [FullImport EXCEPT !.inviteCode = ""]}

ImportInputs == {InvalidJSON} \cup BrokenImports \cup WellFormedImports

\* a stored log: its date and its logged exercises
LogA == [date |-> 2, exercises |-> <<>>]

\* ------------------------------------------------------------------- state
VARIABLES
  appData,          \* App: the in-memory document (useState)
  persisted,        \* localStorage[LOCAL_STORAGE_KEY]
  effects,          \* effects scheduled by the last render, not yet run
  currentView,      \* App: the view shown
  editingTemplate,  \* ExerciseSetup: the draft of the weekly template
  nextId,           \* the next value of generateUniqueId
  clock,            \* the wall clock read by new Date()
  last,             \* history: the operation that produced this state
  currentWeekStart,     \* WeeklyLog: the Monday of the week shown
  logsForWeek,          \* WeeklyLog: the seven logs of the editor
  unsavedChangesDates,  \* WeeklyLog: the dates edited and not yet saved
  isMounted,            \* WeeklyLog: isMountedRef.current
  timeoutId,            \* debounce: is a call of performAutoSave scheduled
  args,                 \* the arguments of the call of a pure function
  tabs,                 \* the App of each browser tab on the same localStorage
  lastSaver             \* history: the tab that wrote localStorage last

\* the state of the WeeklyLog component
weeklyLogVars ==
  <<currentWeekStart, logsForWeek, unsavedChangesDates, isMounted, timeoutId>>

\* the tabs that share localStorage
tabVars == <<tabs, lastSaver>>

\* what the data service, the template editor and the groups never touch
otherVars == <<weeklyLogVars, args, tabVars>>

vars ==
  <<appData, persisted, effects, currentView, editingTemplate, nextId, clock, last,
    otherVars>>

\* no second tab is open
NoTabs == tabs = <<>> /\ lastSaver = 0

\* no WeeklyLog is rendered and no pure function is under call
NoWeeklyLog ==
  /\ currentWeekStart = 0
  /\ logsForWeek = <<>>
  /\ unsavedChangesDates = {}
  /\ isMounted = FALSE
  /\ timeoutId = FALSE
  /\ args = <<>>
  /\ NoTabs

Op(op, ret) == [op |-> op, ret |-> ret]

NoDraft == <<>>

\* did the call return the document it was given
Outcome(before, after) == IF after = before THEN "unchanged" ELSE "changed"

\* --------------------------------------- the data service, called directly
ServiceInit ==
  /\ appData = loadData(NoDoc, 1)
  /\ persisted = NoDoc
  /\ effects = {}
  /\ currentView = "none"
  /\ editingTemplate = NoDraft
  /\ nextId = 2
  /\ clock = 1
  /\ last = Op("loadData", "changed")
  /\ NoWeeklyLog

ServiceFrame == UNCHANGED <<persisted, effects, currentView, editingTemplate, otherVars>>

CallAddExercise(name) ==
  LET r == addExercise(appData, name, nextId)
  IN /\ r.newExercise.id = nextId => nextId <= MaxIds
     /\ Len(r.newData.exercises) <= MaxExercises
     /\ appData' = r.newData
     /\ nextId' = IF r.newExercise.id = nextId THEN nextId + 1 ELSE nextId
     /\ last' = Op("addExercise",
                   CASE r.newExercise = NoExercise -> "blank"
                     [] r.newExercise.id = nextId -> "added"
                     [] OTHER -> "exists")
     /\ UNCHANGED clock
     /\ ServiceFrame

CallSaveData ==
  /\ appData' = SavedData(appData)
  /\ persisted' = saveData(appData)
  /\ last' = Op("saveData", "changed")
  /\ UNCHANGED <<effects, currentView, editingTemplate, nextId, clock, otherVars>>

CallUpdateWeeklyTemplate(newTemplate) ==
  /\ appData' = updateWeeklyTemplate(appData, newTemplate)
  /\ last' = Op("updateWeeklyTemplate", Outcome(appData, appData'))
  /\ UNCHANGED <<nextId, clock>>
  /\ ServiceFrame

CallCreateGroup(groupName) ==
  /\ nextId <= MaxIds
  /\ appData' = createGroup(appData, groupName, nextId,
                            CHOOSE c \in InviteCodes : TRUE, clock)
  /\ nextId' = IF appData' = appData THEN nextId ELSE nextId + 1
  /\ last' = Op("createGroup", Outcome(appData, appData'))
  /\ UNCHANGED clock
  /\ ServiceFrame

CallUpdateGroupSharedTemplate(groupId) ==
  /\ appData' = updateGroupSharedTemplate(appData, groupId, clock)
  /\ last' = Op("updateGroupSharedTemplate", Outcome(appData, appData'))
  /\ UNCHANGED <<nextId, clock>>
  /\ ServiceFrame

CallApplyGroupTemplateToUser(groupId) ==
  /\ appData' = applyGroupTemplateToUser(appData, groupId)
  /\ last' = Op("applyGroupTemplateToUser", Outcome(appData, appData'))
  /\ UNCHANGED <<nextId, clock>>
  /\ ServiceFrame

CallAddGroupFromImport(groupJSON) ==
  LET r == addGroupFromImport(appData, groupJSON)
  IN /\ appData' = r.newData
     /\ last' = Op("addGroupFromImport", r.error)
     /\ UNCHANGED <<nextId, clock>>
     /\ ServiceFrame

CallRemoveGroup(groupId) ==
  /\ appData' = removeGroup(appData, groupId)
  /\ last' = Op("removeGroup", Outcome(appData, appData'))
  /\ UNCHANGED <<nextId, clock>>
  /\ ServiceFrame

\* time passes
Tick ==
  /\ clock < MaxClock
  /\ clock' = clock + 1
  /\ UNCHANGED <<appData, persisted, effects, currentView, editingTemplate, nextId, last, otherVars>>

\* the exercise list alone: addExercise and saveData in any order
ExercisesNext ==
  \/ \E name \in NameInputs : CallAddExercise(name)
  \/ CallSaveData

SpecExercises == ServiceInit /\ [][ExercisesNext]_vars

\* templates and groups
ServiceNext ==
  \/ CallUpdateWeeklyTemplate(TemplateA)
  \/ \E name \in GroupNameInputs : CallCreateGroup(name)
  \/ \E g \in GroupIdInputs : CallUpdateGroupSharedTemplate(g)
  \/ \E g \in GroupIdInputs : CallApplyGroupTemplateToUser(g)
  \/ \E json \in ImportInputs : CallAddGroupFromImport(json)
  \/ \E g \in GroupIdInputs : CallRemoveGroup(g)
  \/ Tick

\* the document after one exercise was added and one day was logged
SeededData ==
  upsertDailyLog(addExercise(loadData(NoDoc, 1), <<"a">>, 2).newData, LogA)

GroupsInit ==
  /\ appData = SeededData
  /\ persisted = NoDoc
  /\ effects = {}
  /\ currentView = "none"
  /\ editingTemplate = NoDraft
  /\ nextId = 3
  /\ clock = 1
  /\ last = Op("upsertDailyLog", "changed")
  /\ NoWeeklyLog

SpecService == GroupsInit /\ [][ServiceNext]_vars

\* groups created, imported and removed; among the imports are later
\* exports of the groups created here, as their owner or another user
\* would hand them back
OwnExports ==
  {[FullImport EXCEPT !.id = id, !.ownerId = owner,
                      !.sharedTemplate = ShortTemplate, !.lastUpdated = MaxClock + 1] :
     id \in 3..(nextId - 1), owner \in {appData.userId, OtherUserId}}

ImportNext ==
  \/ \E name \in GroupNameInputs : CallCreateGroup(name)
  \/ \E json \in ImportInputs \cup OwnExports : CallAddGroupFromImport(json)
  \/ \E g \in GroupIdInputs : CallRemoveGroup(g)
  \/ Tick

SpecImport == GroupsInit /\ [][ImportNext]_vars

\* ------------------------------------------------- loading what is stored
\* stored templates: none that is seven long, well-formed ones, and ones
\* of seven slots of which one is null or lacks a field
StoredTemplates ==
  {<<>>, ShortTemplate, TemplateA \o ShortTemplate, TemplateA,
   [TemplateA EXCEPT ![4] = NullSlot],
   [TemplateA EXCEPT ![2] = [dayOfWeek |-> 1]],
   [TemplateB EXCEPT ![2] = [exercises |-> <<Item(2, 1, "", 0)>>]]}

StoredExercises == <<[id |-> 3, name |-> <<"b">>], [id |-> 2, name |-> <<"A">>]>>

\* a stored document: the keys it has, its userId and its template; a key
\* that is absent also stands for one that holds null
StoredDoc(keys, userId, template) ==
  [k \in keys |->
     CASE k = "userId" -> userId
       [] k = "exercises" -> StoredExercises
       [] k = "weeklyTemplate" -> template
       [] k = "dailyLogs" -> <<LogA>>
       [] k = "groups" -> <<FullImport>>
       [] k = "activeSyncedGroupId" -> ForeignGroupId]

StoredInputs ==
  {NoDoc} \cup
  {StoredDoc(keys, userId, template) :
     keys \in SUBSET DocKeys, userId \in {Undefined, 1}, template \in StoredTemplates}

LoadInit ==
  /\ persisted \in StoredInputs
  /\ appData = NoDoc
  /\ effects = {}
  /\ currentView = "none"
  /\ editingTemplate = NoDraft
  /\ nextId = 4
  /\ clock = 1
  /\ last = Op("none", "none")
  /\ NoWeeklyLog

\* the call of loadData that App makes when it starts
CallLoadData ==
  /\ last.op = "none"
  /\ appData' = loadData(persisted, nextId)
  /\ nextId' = IF appData'.userId = nextId THEN nextId + 1 ELSE nextId
  /\ last' = Op("loadData", "loaded")
  /\ UNCHANGED <<persisted, effects, currentView, editingTemplate, clock, otherVars>>

LoadNext == CallLoadData

SpecLoad == LoadInit /\ [][LoadNext]_vars

\* ---------------------------------------------------------------- the App
\* what the user types, pastes and picks in the three editing views
UiNameInputs == {<<>>, <<" ", "a">>, <<"A">>}
UiGroupNameInputs == {<<" ">>, <<"b">>}
UiImportInputs ==
  {InvalidJSON, [k \in GroupKeys \ {"sharedTemplate"} |-> FullImport[k]],
   FullImport}
\* the weekday the user edits or imports into
DayInputs == {1}
\* the value typed into the sets field of a row (0, which also stands for
\* an emptied field, where parseInt yields NaN) and into its reps field
SetsInputs == {0}
RepsInputs == {""}
\* rows of an uploaded file as parseCSVExercisePlan returns them: a file
\* without a usable row
CsvInputs == {<<>>}
\* what parseFullWorkoutPlanFromText returns, the days found in ascending
\* order: nothing, or a weekday line and a header with no rows below
PlanInputs ==
  {<<>>,
   <<[dayOfWeek |-> 1, exercises |-> <<>>]>>}
\* the cleaned log of a day of the log editor
UiLogInputs == {LogA}
Views == {"SETUP", "LOG", "GROUPS"}

Init ==
  /\ persisted = NoDoc
  /\ appData = loadData(persisted, 1)
  /\ effects = {"saveData"}
  /\ currentView = "LOG"
  /\ editingTemplate = NoDraft
  /\ nextId = 2
  /\ clock = 1
  /\ last = Op("loadData", "changed")
  /\ NoWeeklyLog

\* handleDataChange after which App does not save
handleDataChangeNoSave(newData, fresh, freshTemplate) ==
  /\ appData' = newData
  /\ effects' =
       IF /\ fresh
          /\ currentView = "SETUP"
          /\ \/ freshTemplate
             \/ newData.activeSyncedGroupId # appData.activeSyncedGroupId
       THEN {"reloadDraft"} ELSE {}

\* handleDataChange: setAppData(newData).  React re-renders when the object
\* is a new one (fresh) and then runs the effects whose dependencies
\* changed: the save of App, and in Setup the reload of the draft when
\* data.weeklyTemplate is a new array (freshTemplate) or
\* data.activeSyncedGroupId changed
handleDataChange(newData, fresh, freshTemplate) ==
  /\ appData' = newData
  /\ effects' =
       IF ~fresh THEN {}
       ELSE {"saveData"} \cup
            (IF /\ currentView = "SETUP"
                /\ \/ freshTemplate
                   \/ newData.activeSyncedGroupId # appData.activeSyncedGroupId
             THEN {"reloadDraft"} ELSE {})

Idle == effects = {}

\* the effects of one render: ExerciseSetup reloads its draft, App saves
RunEffects ==
  /\ effects # {}
  /\ editingTemplate' = IF "reloadDraft" \in effects
                        THEN JSONCopy(appData.weeklyTemplate)
                        ELSE editingTemplate
  /\ IF "saveData" \in effects
     THEN /\ appData' = SavedData(appData)
          /\ persisted' = saveData(appData)
     ELSE UNCHANGED <<appData, persisted>>
  /\ effects' = {}
  /\ UNCHANGED <<currentView, nextId, clock, last, otherVars>>

setCurrentView(view) ==
  /\ Idle
  /\ view # currentView
  /\ currentView' = view
  /\ editingTemplate' = IF view = "SETUP" THEN JSONCopy(appData.weeklyTemplate)
                        ELSE NoDraft
  /\ last' = Op("setCurrentView", view)
  /\ UNCHANGED <<appData, persisted, effects, nextId, clock, otherVars>>

\* ----------------------------------------------------------- ExerciseSetup
InSetup == Idle /\ currentView = "SETUP"

handleAddExerciseManually(name) ==
  LET trimmedName == trim(name)
      r == addExercise(appData, trimmedName, nextId)
      isNew == /\ r.newExercise # NoExercise
               /\ ~\E i \in 1..Len(appData.exercises) :
                      appData.exercises[i].id = r.newExercise.id
  IN /\ InSetup
     /\ isNew => nextId <= MaxIds
     /\ Len(r.newData.exercises) <= MaxExercises
     /\ IF trimmedName # <<>> /\ isNew
        THEN /\ handleDataChange(r.newData, TRUE, FALSE)
             /\ nextId' = nextId + 1
        ELSE UNCHANGED <<appData, effects, nextId>>
     /\ last' = Op("handleAddExerciseManually",
                   CASE trimmedName = <<>> -> "blank"
                     [] isNew -> "added"
                     [] OTHER -> "exists")
     /\ UNCHANGED <<persisted, currentView, editingTemplate, clock, otherVars>>

\* handleAnyTemplateModification: the document handed to the callback
DesyncedCopy(data) ==
  IF data.activeSyncedGroupId # Undefined THEN desyncActiveGroup(data) ELSE data

\* the callback of handleFileUpload, item by item: the document with the
\* new exercises, the rows of the template day, the next fresh id
RECURSIVE ImportCsvItems(_, _, _)
ImportCsvItems(data, items, freshId) ==
  IF items = <<>> THEN [data |-> data, rows |-> <<>>, nextId |-> freshId]
  ELSE LET item == Head(items)
           addResult == addExercise(data, trim(item.name), freshId)
           added == addResult.newExercise.id = freshId
           rest == ImportCsvItems(addResult.newData, Tail(items),
                                  IF added THEN freshId + 1 ELSE freshId)
           row == Item(addResult.newExercise.id, item.targetSets,
                       item.targetReps, UndefNum)
       IN [rest EXCEPT !.rows = IF addResult.newExercise # NoExercise
                                 THEN <<row>> \o @ ELSE @]

\* reader.onload of handleFileUpload; the file is read before the user acts
\* again.  The row goes into the draft day with the selected weekday; a draft
\* without that day (the branch that assigns baseTemplateForEdit[day]) is
\* outside the model.
handleFileUpload(planItems, selectedDayForImport) ==
  LET currentData == DesyncedCopy(appData)
      r == ImportCsvItems(currentData, planItems, nextId)
      dayToUpdate == FindIndex(Test(editingTemplate,
                               LAMBDA d : d.dayOfWeek = selectedDayForImport))
  IN /\ InSetup
     /\ dayToUpdate # 0
     /\ r.nextId <= MaxIds + 1
     /\ Len(r.data.exercises) <= MaxExercises
     /\ editingTemplate' = [editingTemplate EXCEPT ![dayToUpdate].exercises = r.rows]
     /\ handleDataChange(r.data, TRUE, FALSE)
     /\ nextId' = r.nextId
     /\ last' = Op("handleFileUpload", Outcome(appData, appData'))
     /\ UNCHANGED <<persisted, currentView, clock, otherVars>>

\* the names of a parsed plan in the order a Set keeps them
RECURSIVE Dedupe(_)
Dedupe(names) ==
  IF names = <<>> THEN <<>>
  ELSE LET front == Dedupe(SubSeq(names, 1, Len(names) - 1))
           x == names[Len(names)]
       IN IF \E i \in 1..Len(front) : front[i] = x THEN front ELSE Append(front, x)

RECURSIVE PlanNames(_)
PlanNames(plan) ==
  IF plan = <<>> THEN <<>>
  ELSE [j \in 1..Len(Head(plan).exercises) |-> Head(plan).exercises[j].name]
         \o PlanNames(Tail(plan))

RECURSIVE AddAllExercises(_, _, _)
AddAllExercises(data, names, freshId) ==
  IF names = <<>> THEN [data |-> data, nextId |-> freshId]
  ELSE LET addResult == addExercise(data, Head(names), freshId)
       IN AddAllExercises(addResult.newData, Tail(names),
                          IF addResult.newExercise.id = freshId
                          THEN freshId + 1 ELSE freshId)

\* the template items of one parsed day: an item whose exercise is found
RECURSIVE TemplateDayExercises(_, _)
TemplateDayExercises(exercises, parsed) ==
  IF parsed = <<>> THEN <<>>
  ELSE LET parsedEx == Head(parsed)
           at == FindIndex(Test(exercises,
                   LAMBDA e : toLowerCase(e.name) = toLowerCase(parsedEx.name)))
           rest == TemplateDayExercises(exercises, Tail(parsed))
       IN IF at = 0 THEN rest
          ELSE <<Item(exercises[at].id, parsedEx.targetSets, parsedEx.targetReps,
                      parsedEx.originalIndex)>> \o rest

RECURSIVE InsertByDay(_, _)
InsertByDay(d, s) ==
  IF s = <<>> THEN <<d>>
  ELSE IF Head(s).dayOfWeek <= d.dayOfWeek
       THEN <<Head(s)>> \o InsertByDay(d, Tail(s))
       ELSE <<d>> \o s

RECURSIVE SortByDay(_)
SortByDay(s) ==
  IF s = <<>> THEN <<>>
  ELSE InsertByDay(s[Len(s)], SortByDay(SubSeq(s, 1, Len(s) - 1)))

\* the draft after the parsed days were written into it
RECURSIVE ApplyPlan(_, _, _)
ApplyPlan(template, exercises, plan) ==
  IF plan = <<>> THEN template
  ELSE LET dayOfWeek == Head(plan).dayOfWeek
           items == TemplateDayExercises(exercises, Head(plan).exercises)
           dayInTemplate == FindIndex(Test(template, LAMBDA d : d.dayOfWeek = dayOfWeek))
           next == IF dayInTemplate # 0
                   THEN [template EXCEPT ![dayInTemplate].exercises = items]
                   ELSE SortByDay(Append(template,
                          [dayOfWeek |-> dayOfWeek, exercises |-> items]))
       IN ApplyPlan(next, exercises, Tail(plan))

handleParseAndImportFullPlan(parsedPlanByDay) ==
  LET currentData == DesyncedCopy(appData)
      r == AddAllExercises(currentData, Dedupe(PlanNames(parsedPlanByDay)), nextId)
  IN /\ InSetup
     /\ r.nextId <= MaxIds + 1
     /\ Len(r.data.exercises) <= MaxExercises
     /\ IF parsedPlanByDay = <<>>
        THEN UNCHANGED <<appData, effects, editingTemplate, nextId>>
        ELSE /\ editingTemplate' = ApplyPlan(JSONCopy(editingTemplate),
                                             r.data.exercises, parsedPlanByDay)
             /\ handleDataChange(r.data, TRUE, FALSE)
             /\ nextId' = r.nextId
     /\ last' = Op("handleParseAndImportFullPlan",
                   IF parsedPlanByDay = <<>> THEN "unparsed" ELSE "imported")
     /\ UNCHANGED <<persisted, currentView, clock, otherVars>>

\* the draft after handleTemplateExerciseChange; the draft itself when no
\* day of it has the weekday
TemplateExerciseChange(template, dayIndex, exerciseId, targetSets, targetReps) ==
  LET dayObject == FindIndex(Test(template, LAMBDA d : d.dayOfWeek = dayIndex))
      dayExercises == template[dayObject].exercises
      existingExIndex == FindIndex(Test(dayExercises, LAMBDA ex : ex.exerciseId = exerciseId))
      updatedExercise ==
        Item(exerciseId, targetSets,
             IF targetReps = UndefStr
             THEN IF existingExIndex > 0 THEN dayExercises[existingExIndex].targetReps
                  ELSE UndefStr
             ELSE targetReps,
             IF existingExIndex > 0 THEN dayExercises[existingExIndex].originalIndex
             ELSE UndefNum)
      newExercises ==
        IF targetSets > 0
        THEN IF existingExIndex > 0
             THEN [dayExercises EXCEPT ![existingExIndex] = updatedExercise]
             ELSE Append(dayExercises, updatedExercise)
        ELSE IF existingExIndex > 0
             THEN SubSeq(dayExercises, 1, existingExIndex - 1)
                    \o SubSeq(dayExercises, existingExIndex + 1, Len(dayExercises))
             ELSE dayExercises
  IN IF dayObject = 0 THEN template
     ELSE [template EXCEPT ![dayObject].exercises = newExercises]

handleTemplateExerciseChange(dayIndex, exerciseId, targetSets, targetReps) ==
  /\ InSetup
  /\ editingTemplate' = TemplateExerciseChange(editingTemplate, dayIndex,
                                               exerciseId, targetSets, targetReps)
  /\ IF /\ \E i \in 1..Len(editingTemplate) : editingTemplate[i].dayOfWeek = dayIndex
        /\ appData.activeSyncedGroupId # Undefined
     THEN handleDataChange(desyncActiveGroup(appData), TRUE, FALSE)
     ELSE UNCHANGED <<appData, effects>>
  /\ last' = Op("handleTemplateExerciseChange",
                IF \E i \in 1..Len(editingTemplate) : editingTemplate[i].dayOfWeek = dayIndex
                THEN "edited" ELSE "noday")
  /\ UNCHANGED <<persisted, currentView, nextId, clock, otherVars>>

\* the day of the draft that the grid shows for a weekday
\* (editingTemplate.find, or an empty day)
ShownDay(dayIndex) ==
  LET at == FindIndex(Test(editingTemplate, LAMBDA td : td.dayOfWeek = dayIndex))
  IN IF at = 0 THEN [dayOfWeek |-> dayIndex, exercises |-> <<>>]
     ELSE editingTemplate[at]

\* the sets field of a row of the grid
ChangeTargetSets ==
  \E dayIndex \in DayInputs, value \in SetsInputs :
    \E j \in 1..Len(ShownDay(dayIndex).exercises) :
      LET te == ShownDay(dayIndex).exercises[j]
      IN handleTemplateExerciseChange(dayIndex, te.exerciseId, value, te.targetReps)

\* the reps field of a row of the grid
ChangeTargetReps ==
  \E dayIndex \in DayInputs, value \in RepsInputs :
    \E j \in 1..Len(ShownDay(dayIndex).exercises) :
      LET te == ShownDay(dayIndex).exercises[j]
      IN handleTemplateExerciseChange(dayIndex, te.exerciseId, te.targetSets, value)

\* the select below a day: an exercise of the master list not yet in the day
AddExerciseToDay ==
  \E dayIndex \in DayInputs :
    \E i \in 1..Len(appData.exercises) :
      /\ ~\E j \in 1..Len(ShownDay(dayIndex).exercises) :
            ShownDay(dayIndex).exercises[j].exerciseId = appData.exercises[i].id
      /\ handleTemplateExerciseChange(dayIndex, appData.exercises[i].id, 1, "")

isTemplateEmpty ==
  \A i \in 1..Len(editingTemplate) : editingTemplate[i].exercises = <<>>

\* DAYS_OF_WEEK.map: for each weekday the first day of the draft that has
\* it, or an empty day
CompleteTemplate(template) ==
  [i \in 1..NumDays |->
     LET existingDay == FindIndex(Test(template, LAMBDA d : d.dayOfWeek = i - 1))
     IN IF existingDay # 0 THEN template[existingDay]
        ELSE [dayOfWeek |-> i - 1, exercises |-> <<>>]]

saveTemplate ==
  /\ InSetup
  /\ ~(appData.exercises = <<>> /\ isTemplateEmpty)
  /\ handleDataChange(updateWeeklyTemplate(appData, CompleteTemplate(editingTemplate)),
                      TRUE, TRUE)
  /\ last' = Op("saveTemplate", Outcome(appData, appData'))
  /\ UNCHANGED <<persisted, currentView, editingTemplate, nextId, clock, otherVars>>

handleClearTemplate ==
  /\ InSetup
  /\ editingTemplate' = EmptyTemplate
  /\ IF appData.activeSyncedGroupId # Undefined
     THEN handleDataChange(desyncActiveGroup(appData), TRUE, FALSE)
     ELSE UNCHANGED <<appData, effects>>
  /\ last' = Op("handleClearTemplate", Outcome(appData, appData'))
  /\ UNCHANGED <<persisted, currentView, nextId, clock, otherVars>>

\* the group the template is synced with, 0 when there is none
activeGroup ==
  IF appData.activeSyncedGroupId = Undefined THEN 0
  ELSE FindIndex(Test(appData.groups, LAMBDA g : g.id = appData.activeSyncedGroupId))

handleResyncFromGroup ==
  /\ InSetup
  /\ activeGroup # 0
  /\ handleDataChange(applyGroupTemplateToUser(appData, appData.groups[activeGroup].id),
                      TRUE, TRUE)
  /\ last' = Op("handleResyncFromGroup", Outcome(appData, appData'))
  /\ UNCHANGED <<persisted, currentView, editingTemplate, nextId, clock, otherVars>>

\* --------------------------------------------------------- GroupManagement
InGroups == Idle /\ currentView = "GROUPS"

IsOwned(g) == g.ownerId = appData.userId

handleCreateGroup(newGroupName) ==
  /\ InGroups
  /\ nextId <= MaxIds
  /\ Len(appData.groups) < MaxGroups
  /\ IF trim(newGroupName) = <<>>
     THEN UNCHANGED <<appData, effects, nextId>>
     ELSE /\ handleDataChange(createGroup(appData, newGroupName, nextId,
                                          CHOOSE c \in InviteCodes : TRUE, clock),
                              TRUE, FALSE)
          /\ nextId' = nextId + 1
  /\ last' = Op("handleCreateGroup",
                IF trim(newGroupName) = <<>> THEN "blank" ELSE "created")
  /\ UNCHANGED <<persisted, currentView, editingTemplate, clock, otherVars>>

\* the button of an owned group
handleUpdateSharedTemplate(i) ==
  LET newData == updateGroupSharedTemplate(appData, appData.groups[i].id, clock)
  IN /\ InGroups
     /\ IsOwned(appData.groups[i])
     /\ handleDataChange(newData, TRUE, FALSE)
     /\ last' = Op("handleUpdateSharedTemplate", Outcome(appData, appData'))
     /\ UNCHANGED <<persisted, currentView, editingTemplate, nextId, clock, otherVars>>

\* the button of an owned group
handleDeleteGroup(i) ==
  /\ InGroups
  /\ IsOwned(appData.groups[i])
  /\ handleDataChange(removeGroup(appData, appData.groups[i].id), TRUE, FALSE)
  /\ last' = Op("handleDeleteGroup", Outcome(appData, appData'))
  /\ UNCHANGED <<persisted, currentView, editingTemplate, nextId, clock, otherVars>>

handleImportGroupData(groupJsonToImport) ==
  LET r == addGroupFromImport(appData, groupJsonToImport)
  IN /\ InGroups
     /\ Len(r.newData.groups) <= MaxGroups
     /\ IF r.error = NoError /\ r.importedGroup
        THEN handleDataChange(r.newData, TRUE, FALSE)
        ELSE UNCHANGED <<appData, effects>>
     /\ last' = Op("handleImportGroupData", r.error)
     /\ UNCHANGED <<persisted, currentView, editingTemplate, nextId, clock, otherVars>>

\* the button of a joined group, disabled while the template is synced
\* with it
handleSyncTemplate(i) ==
  /\ InGroups
  /\ ~IsOwned(appData.groups[i])
  /\ appData.activeSyncedGroupId # appData.groups[i].id
  /\ handleDataChange(applyGroupTemplateToUser(appData, appData.groups[i].id),
                      TRUE, TRUE)
  /\ last' = Op("handleSyncTemplate", Outcome(appData, appData'))
  /\ UNCHANGED <<persisted, currentView, editingTemplate, nextId, clock, otherVars>>

\* the button of a joined group
handleLeaveGroup(i) ==
  /\ InGroups
  /\ ~IsOwned(appData.groups[i])
  /\ handleDataChange(removeGroup(appData, appData.groups[i].id), TRUE, FALSE)
  /\ last' = Op("handleLeaveGroup", Outcome(appData, appData'))
  /\ UNCHANGED <<persisted, currentView, editingTemplate, nextId, clock, otherVars>>

\* --------------------------------------------------------------- WeeklyLog
InLog == Idle /\ currentView = "LOG"

\* saveDayLog; cleanedLogToSave is the day of the editor without its
\* unfilled sets
saveDayLog(cleanedLogToSave) ==
  /\ InLog
  /\ handleDataChange(upsertDailyLog(appData, cleanedLogToSave), TRUE, FALSE)
  /\ last' = Op("saveDayLog", Outcome(appData, appData'))
  /\ UNCHANGED <<persisted, currentView, editingTemplate, nextId, clock, otherVars>>

\* performAutoSave for one unsaved date: nothing is written when the stored
\* log already equals the cleaned one
performAutoSave(cleanedLogToSave) ==
  LET at == FindIndex(Test(appData.dailyLogs, LAMBDA dlog : dlog.date = cleanedLogToSave.date))
      anyChangeMadeToAppData == at = 0 \/ appData.dailyLogs[at] # cleanedLogToSave
  IN /\ InLog
     /\ IF anyChangeMadeToAppData
        THEN handleDataChange(upsertDailyLog(appData, cleanedLogToSave), TRUE, FALSE)
        ELSE UNCHANGED <<appData, effects>>
     /\ last' = Op("performAutoSave", Outcome(appData, appData'))
     /\ UNCHANGED <<persisted, currentView, editingTemplate, nextId, clock, otherVars>>

\* ------------------------------------------------------ the specification
\* The clock is read once in a session of Spec: the handlers only store what
\* they read of it (lastUpdated of a group of the user), none compares it.
Next ==
  \/ RunEffects
  \/ \E view \in Views : setCurrentView(view)
  \/ \E name \in UiNameInputs : handleAddExerciseManually(name)
  \/ \E items \in CsvInputs, day \in DayInputs : handleFileUpload(items, day)
  \/ \E plan \in PlanInputs : handleParseAndImportFullPlan(plan)
  \/ ChangeTargetSets
  \/ ChangeTargetReps
  \/ AddExerciseToDay
  \/ saveTemplate
  \/ handleClearTemplate
  \/ handleResyncFromGroup
  \/ \E name \in UiGroupNameInputs : handleCreateGroup(name)
  \/ \E i \in 1..Len(appData.groups) : handleUpdateSharedTemplate(i)
  \/ \E i \in 1..Len(appData.groups) : handleDeleteGroup(i)
  \/ \E json \in UiImportInputs : handleImportGroupData(json)
  \/ \E i \in 1..Len(appData.groups) : handleSyncTemplate(i)
  \/ \E i \in 1..Len(appData.groups) : handleLeaveGroup(i)
  \/ \E log \in UiLogInputs : saveDayLog(log)
  \/ \E log \in UiLogInputs : performAutoSave(log)

Spec == Init /\ [][Next]_vars

\* =============================================================== WeeklyLog
\* ------------------------------------------------------------------ dates
\* An ISO date ("YYYY-MM-DD") is the number of its calendar day, day 0 a
\* Sunday.  A Date is an instant: `day` is the calendar day it falls on in
\* the time zone of the browser and `utc` is how many days the calendar day
\* of the same instant in UTC lies after it (-1 east of Greenwich before the
\* offset has passed since midnight, 1 west of it late in the evening).
Date(day, utc) == [day |-> day, utc |-> utc]

\* Date.prototype.getDay: the weekday in the time zone of the browser
getDay(date) == date.day % NumDays

\* date.toISOString().split('T')[0]: the calendar day in UTC
formatDateISO(date) == date.day + date.utc

\* setDate(getDate() + days) keeps the time of day
addDays(date, days) == [date EXCEPT !.day = @ + days]

getWeekStartDate(date) ==
  LET day == getDay(date)
  IN addDays(date, (IF day = 0 THEN -6 ELSE 1) - day)

getWeekDays(startDate) == [i \in 1..NumDays |-> addDays(startDate, i - 1)]

\* new Date(iso + 'T00:00:00').getDay(): the ISO date read as local midnight
LocalWeekday(iso) == iso % NumDays

\* the day on which the session runs (a Wednesday) and the offsets of its
\* instant from UTC
Today == 10
UtcInputs == {-1, 0, 1}

\* ------------------------------------------------- the logs of the editor
MAX_SETS_PER_EXERCISE == 10

\* the characters of a targetReps of the template
Chars(str) ==
  CASE str = "" -> <<>>
    [] str = "5" -> <<"5">>
    [] str = "8" -> <<"8">>
    [] OTHER -> <<"?">>

UnknownExercise == <<"U", "n", "k", "n", "o", "w", "n">>

NoLog == [nolog |-> TRUE]

getDailyLog(data, date) ==
  LET at == FindIndex(Test(data.dailyLogs, LAMBDA log : log.date = date))
  IN IF at = 0 THEN NoLog ELSE data.dailyLogs[at]

getExerciseNameById(data, id) ==
  LET at == FindIndex(Test(data.exercises, LAMBDA ex : ex.id = id))
  IN IF at = 0 THEN UnknownExercise ELSE data.exercises[at].name

ExerciseSet(setNumber, weight, reps, completed) ==
  [setNumber |-> setNumber, weight |-> weight, reps |-> reps, completed |-> completed]

\* the template's entry of an exercise on a weekday (templateEx), or NoLog
TemplateEntry(data, exerciseId, dayOfWeek) ==
  LET d == FindIndex(Test(data.weeklyTemplate, LAMBDA td : td.dayOfWeek = dayOfWeek))
      e == IF d = 0 THEN 0
           ELSE FindIndex(Test(data.weeklyTemplate[d].exercises,
                               LAMBDA te : te.exerciseId = exerciseId))
  IN IF e = 0 THEN NoLog ELSE data.weeklyTemplate[d].exercises[e]

\* templateEx?.targetReps || ''
TargetRepsOrEmpty(templateEx) ==
  IF templateEx = NoLog \/ templateEx.targetReps = UndefStr THEN <<>>
  ELSE Chars(templateEx.targetReps)

initializeSetsForExercise(data, exerciseId, dayOfWeek) ==
  LET templateEx == TemplateEntry(data, exerciseId, dayOfWeek)
      numSets == IF templateEx = NoLog \/ templateEx.targetSets \in {0, UndefNum}
                 THEN 1 ELSE templateEx.targetSets
  IN [i \in 1..numSets |->
        ExerciseSet(i, <<>>, TargetRepsOrEmpty(templateEx), FALSE)]

\* JSON.parse(JSON.stringify(existingLog))
JSONCopyLog(log) ==
  [date |-> log.date,
   exercises |->
     [j \in 1..Len(log.exercises) |->
        [exerciseId |-> log.exercises[j].exerciseId,
         name |-> log.exercises[j].name,
         sets |-> [k \in 1..Len(log.exercises[j].sets) |->
                     ExerciseSet(log.exercises[j].sets[k].setNumber,
                                 log.exercises[j].sets[k].weight,
                                 log.exercises[j].sets[k].reps,
                                 log.exercises[j].sets[k].completed)],
         notes |-> log.exercises[j].notes]]]

initializeLogsForDay(data, date) ==
  LET isoDate == formatDateISO(date)
      existingLog == getDailyLog(data, isoDate)
      dayOfWeek == getDay(date)
      d == FindIndex(Test(data.weeklyTemplate, LAMBDA td : td.dayOfWeek = dayOfWeek))
      templateExercises == IF d = 0 THEN <<>> ELSE data.weeklyTemplate[d].exercises
  IN IF existingLog # NoLog THEN JSONCopyLog(existingLog)
     ELSE [date |-> isoDate,
           exercises |->
             [j \in 1..Len(templateExercises) |->
                [exerciseId |-> templateExercises[j].exerciseId,
                 name |-> getExerciseNameById(data, templateExercises[j].exerciseId),
                 sets |-> initializeSetsForExercise(
                            data, templateExercises[j].exerciseId, dayOfWeek),
                 notes |-> ""]]]

\* the effect on [currentWeekStart, data.weeklyTemplate, data.dailyLogs]
InitializeLogs(data, weekStart) ==
  [i \in 1..NumDays |-> initializeLogsForDay(data, getWeekDays(weekStart)[i])]

\* a filter that keeps every set
IsFilledAlways(set) == TRUE

\* a set is kept when it is completed or has both a weight and reps
IsFilled(set) == set.completed \/ (trim(set.weight) # <<>> /\ trim(set.reps) # <<>>)

\* the log without its unfilled sets and without the exercises that are
\* left with no set
CleanedLogDropsExercises(log) ==
  [date |-> log.date,
   exercises |->
     SelectSeq([j \in 1..Len(log.exercises) |->
                  [log.exercises[j] EXCEPT !.sets = SelectSeq(@, IsFilled)]],
               LAMBDA ex : ex.sets # <<>>)]

\* the log without its unfilled sets (cleanedLogToSave)
CleanedLog(log) ==
  [date |-> log.date,
   exercises |->
     [j \in 1..Len(log.exercises) |->
        [log.exercises[j] EXCEPT !.sets = SelectSeq(@, IsFilled)]]]

\* ------------------------------------------------------ what the user types
\* /^\d*\.?\d*$/
IsDigit(c) == c \in {"0", "1", "2", "3", "4", "5", "6", "7", "8", "9"}

WeightPattern(value) ==
  /\ \A i \in 1..Len(value) : IsDigit(value[i]) \/ value[i] = "."
  /\ Cardinality({i \in 1..Len(value) : value[i] = "."}) <= 1

\* /^(?:\d+(?:\s*(?:s|S|ea|EA|s\s*ea|S\s*EA))?)$/
RepSuffix(rest) ==
  \/ rest \in {<<"s">>, <<"S">>, <<"e", "a">>, <<"E", "A">>}
  \/ /\ Len(rest) >= 3
     /\ \/ Head(rest) = "s" /\ SubSeq(rest, Len(rest) - 1, Len(rest)) = <<"e", "a">>
        \/ Head(rest) = "S" /\ SubSeq(rest, Len(rest) - 1, Len(rest)) = <<"E", "A">>
     /\ \A i \in 2..(Len(rest) - 2) : rest[i] = " "

RepPattern(value) ==
  \E n \in 1..Len(value) :
    /\ \A i \in 1..n : IsDigit(value[i])
    /\ n < Len(value) => ~IsDigit(value[n + 1])
    /\ LET rest == trimStart(SubSeq(value, n + 1, Len(value)))
       IN n < Len(value) => RepSuffix(rest)

\* handleSetChange returns before it edits (parseFloat(value) < 0 needs a
\* sign, which the pattern has refused already)
SetValueRefused(field, value) ==
  \/ field = "weight" /\ value # <<>> /\ ~WeightPattern(value)
  \/ field = "reps" /\ value # <<>> /\ ~RepPattern(trim(value))

\* the fields changed (a weight, reps that the pattern refuses, the tick), and
\* the days of the editor that each handler is tried on
SetFieldInputs ==
  {<<"weight", <<"5">> >>, <<"reps", <<"x">> >>, <<"completed", TRUE>>}
SetChangeDays == {1}
NoteInputs == {"n"}
NoteDays == {1}
SetCountDays == {2}
NameChangeDays == {2}
SaveDays == {1, 2}
WeekOffsets == {-1, 1}
LogViews == {"LOG", "GROUPS"}

\* -------------------------------------------------------------- the editor
\* The effects of WeeklyLog run in the render that a handler causes and are
\* part of its action: the refs follow the state, the logs are initialized
\* again when the week or data.dailyLogs is a new value, and the debounced
\* call is scheduled again when unsavedChangesDates is a new non-empty set.
InEditor == Idle /\ currentView = "LOG" /\ isMounted

\* dayDate <= new Date() || isCurrentWeek(dayDate): isCurrentWeek compares
\* two instants that differ in their time of day, so this is "not after
\* today"
isTodayOrPast(iso) == iso <= Today

\* the inputs and buttons of a day are enabled
Editable(dailyLogIndex) ==
  InEditor /\ isTodayOrPast(logsForWeek[dailyLogIndex].date)

\* the dates that the user logs: the Monday and the Tuesday of this week
\* (the week before is looked at only)
LogDateInputs == {8, 9}

\* setLogsForWeek(newLogs); setUnsavedChangesDates(prev => new Set(prev).add(date))
Edited(newLogs, date) ==
  /\ date \in LogDateInputs
  /\ logsForWeek' = newLogs
  /\ unsavedChangesDates' = unsavedChangesDates \cup {date}
  /\ timeoutId' = TRUE

EditorFrame ==
  UNCHANGED <<appData, persisted, effects, currentView, editingTemplate, nextId,
              clock, currentWeekStart, isMounted, args, tabVars>>

handleSetChange(dailyLogIndex, exerciseIndex, setIndex, field, value) ==
  /\ Editable(dailyLogIndex)
  /\ exerciseIndex \in 1..Len(logsForWeek[dailyLogIndex].exercises)
  /\ setIndex \in 1..Len(logsForWeek[dailyLogIndex].exercises[exerciseIndex].sets)
  /\ IF SetValueRefused(field, value)
     THEN /\ UNCHANGED <<logsForWeek, unsavedChangesDates, timeoutId>>
          /\ last' = Op("handleSetChange", "refused")
     ELSE /\ Edited([logsForWeek EXCEPT
                       ![dailyLogIndex].exercises[exerciseIndex].sets[setIndex][field] = value],
                    logsForWeek[dailyLogIndex].date)
          /\ last' = Op("handleSetChange", "edited")
  /\ EditorFrame

handleExerciseNoteChange(dailyLogIndex, exerciseIndex, notes) ==
  /\ Editable(dailyLogIndex)
  /\ exerciseIndex \in 1..Len(logsForWeek[dailyLogIndex].exercises)
  /\ Edited([logsForWeek EXCEPT ![dailyLogIndex].exercises[exerciseIndex].notes = notes],
            logsForWeek[dailyLogIndex].date)
  /\ last' = Op("handleExerciseNoteChange", "edited")
  /\ EditorFrame

addSet(dailyLogIndex, exerciseIndex) ==
  /\ Editable(dailyLogIndex)
  /\ exerciseIndex \in 1..Len(logsForWeek[dailyLogIndex].exercises)
  /\ LET currentExercise == logsForWeek[dailyLogIndex].exercises[exerciseIndex]
         currentSets == currentExercise.sets
         dayOfWeek == LocalWeekday(logsForWeek[dailyLogIndex].date)
         templateExercise == TemplateEntry(appData, currentExercise.exerciseId, dayOfWeek)
     IN /\ Len(currentSets) < MaxSets
        /\ IF Len(currentSets) < MAX_SETS_PER_EXERCISE
           THEN /\ Edited([logsForWeek EXCEPT
                             ![dailyLogIndex].exercises[exerciseIndex].sets =
                               Append(@, ExerciseSet(Len(currentSets) + 1, <<>>,
                                                     TargetRepsOrEmpty(templateExercise),
                                                     FALSE))],
                          logsForWeek[dailyLogIndex].date)
                /\ last' = Op("addSet", "edited")
           ELSE /\ UNCHANGED <<logsForWeek, unsavedChangesDates, timeoutId>>
                /\ last' = Op("addSet", "full")
  /\ EditorFrame

removeSet(dailyLogIndex, exerciseIndex, setIndex) ==
  /\ Editable(dailyLogIndex)
  /\ exerciseIndex \in 1..Len(logsForWeek[dailyLogIndex].exercises)
  /\ setIndex \in 1..Len(logsForWeek[dailyLogIndex].exercises[exerciseIndex].sets)
  /\ LET sets == logsForWeek[dailyLogIndex].exercises[exerciseIndex].sets
         spliced == SubSeq(sets, 1, setIndex - 1) \o SubSeq(sets, setIndex + 1, Len(sets))
     IN Edited([logsForWeek EXCEPT
                  ![dailyLogIndex].exercises[exerciseIndex].sets =
                    [i \in 1..Len(spliced) |-> [spliced[i] EXCEPT !.setNumber = i]]],
               logsForWeek[dailyLogIndex].date)
  /\ last' = Op("removeSet", "edited")
  /\ EditorFrame

processExerciseNameChange(dailyLogIndex, exerciseIndexInLog, newExerciseName) ==
  /\ Editable(dailyLogIndex)
  /\ exerciseIndexInLog \in 1..Len(logsForWeek[dailyLogIndex].exercises)
  /\ LET trimmedName == trim(newExerciseName)
         dayLog == logsForWeek[dailyLogIndex]
         currentLoggedExercise == dayLog.exercises[exerciseIndexInLog]
         at == FindIndex(Test(appData.exercises,
                              LAMBDA ex : toLowerCase(ex.name) = toLowerCase(trimmedName)))
         dayOfWeek == LocalWeekday(dayLog.date)
     IN IF toLowerCase(currentLoggedExercise.name) = toLowerCase(trimmedName)
        THEN /\ UNCHANGED <<logsForWeek, unsavedChangesDates, timeoutId>>
             /\ last' = Op("processExerciseNameChange", "same")
        ELSE IF at = 0
        THEN /\ UNCHANGED <<logsForWeek, unsavedChangesDates, timeoutId>>
             /\ last' = Op("processExerciseNameChange", "notfound")
        ELSE /\ Edited([logsForWeek EXCEPT ![dailyLogIndex].exercises[exerciseIndexInLog] =
                          [exerciseId |-> appData.exercises[at].id,
                           name |-> appData.exercises[at].name,
                           sets |-> initializeSetsForExercise(
                                      appData, appData.exercises[at].id, dayOfWeek),
                           notes |-> ""]],
                       dayLog.date)
             /\ last' = Op("processExerciseNameChange", "edited")
  /\ EditorFrame

\* saveDayLog of the day at dailyLogIndex of the editor
saveDayLogAt(dailyLogIndex) ==
  /\ Editable(dailyLogIndex)
  /\ logsForWeek[dailyLogIndex].date \in LogDateInputs
  /\ LET logToSave == logsForWeek[dailyLogIndex]
         newData == upsertDailyLog(appData, CleanedLog(logToSave))
     IN /\ handleDataChange(newData, TRUE, FALSE)
        /\ unsavedChangesDates' = unsavedChangesDates \ {logToSave.date}
        /\ logsForWeek' = InitializeLogs(newData, currentWeekStart)
        /\ timeoutId' = (timeoutId \/ unsavedChangesDates' # {})
        /\ last' = Op("saveDayLog",
                      [date |-> logToSave.date,
                       replaced |-> getDailyLog(appData, logToSave.date) # NoLog])
  /\ UNCHANGED <<persisted, currentView, editingTemplate, nextId, clock,
                 currentWeekStart, isMounted, args, tabVars>>

\* the loop of performAutoSave over datesToSave: tempAppData after it.  The
\* dates differ, so the order in which the set yields them does not matter.
RECURSIVE AutoSaved(_, _)
AutoSaved(tempAppData, datesToSave) ==
  IF datesToSave = {} THEN tempAppData
  ELSE LET date == CHOOSE d \in datesToSave : \A e \in datesToSave : d <= e
           at == FindIndex(Test(logsForWeek, LAMBDA log : log.date = date))
           cleanedLogToSave == CleanedLog(logsForWeek[at])
           saved == IF at = 0 \/ getDailyLog(tempAppData, date) = cleanedLogToSave
                    THEN tempAppData
                    ELSE upsertDailyLog(tempAppData, cleanedLogToSave)
       IN AutoSaved(saved, datesToSave \ {date})

\* the call that debounce scheduled, AUTOSAVE_DELAY after the last edit
debouncedPerformAutoSave ==
  /\ Idle
  /\ timeoutId
  /\ timeoutId' = FALSE
  /\ IF ~isMounted \/ unsavedChangesDates = {}
     THEN UNCHANGED <<appData, effects, logsForWeek, unsavedChangesDates>>
     ELSE LET tempAppData == AutoSaved(appData, unsavedChangesDates)
          IN /\ IF tempAppData # appData
                THEN /\ handleDataChange(tempAppData, TRUE, FALSE)
                     /\ logsForWeek' = InitializeLogs(tempAppData, currentWeekStart)
                ELSE UNCHANGED <<appData, effects, logsForWeek>>
             /\ unsavedChangesDates' = {}
  /\ last' = Op("debouncedPerformAutoSave",
                IF isMounted THEN unsavedChangesDates ELSE {})
  /\ UNCHANGED <<persisted, currentView, editingTemplate, nextId, clock,
                 currentWeekStart, isMounted, args, tabVars>>

WeekStarts == {1, 8}

changeWeek(offset) ==
  LET tempAppData == AutoSaved(appData, unsavedChangesDates)
      weekStart == addDays(currentWeekStart, offset * NumDays)
  IN /\ InEditor
     /\ weekStart.day \in WeekStarts
     /\ IF tempAppData # appData
        THEN handleDataChange(tempAppData, TRUE, FALSE)
        ELSE UNCHANGED <<appData, effects>>
     /\ unsavedChangesDates' = {}
     /\ currentWeekStart' = weekStart
     /\ logsForWeek' = InitializeLogs(tempAppData, weekStart)
     /\ last' = Op("changeWeek", unsavedChangesDates)
     /\ UNCHANGED <<persisted, currentView, editingTemplate, nextId, clock,
                    isMounted, timeoutId, args, tabVars>>

\* App renders another view.  Leaving the log unmounts WeeklyLog: React drops
\* its state, and of the instance only the scheduled call stays, which finds
\* isMountedRef.current false.  Showing the log mounts a new instance.
renderView(view) ==
  /\ Idle
  /\ view # currentView
  /\ currentView' = view
  /\ IF view = "LOG"
     THEN /\ currentWeekStart' = getWeekStartDate(Date(Today, 0))
          /\ logsForWeek' = InitializeLogs(appData, currentWeekStart')
          /\ isMounted' = TRUE
          /\ timeoutId' = FALSE
     ELSE /\ currentWeekStart' = 0
          /\ logsForWeek' = <<>>
          /\ isMounted' = FALSE
          /\ timeoutId' = timeoutId
  /\ unsavedChangesDates' = {}
  /\ last' = Op("renderView", view)
  /\ UNCHANGED <<appData, persisted, effects, editingTemplate, nextId, clock, args, tabVars>>

\* ------------------------------------------------- the editor's documents
LogExercises == <<[id |-> 2, name |-> <<"a">>], [id |-> 3, name |-> <<"b">>]>>

\* Monday: a, 2 sets of 5; Tuesday: b, with neither sets nor reps planned
LogTemplate ==
  [EmptyTemplate EXCEPT ![2].exercises = <<Item(2, 2, "5", UndefNum)>>,
                        ![3].exercises = <<Item(3, 0, UndefStr, UndefNum)>>]

\* a log stored for the Monday of the week of Today
StoredLog ==
  [date |-> 8,
   exercises |-> <<[exerciseId |-> 2, name |-> <<"a">>,
                    sets |-> <<ExerciseSet(1, <<>>, <<"5">>, TRUE)>>,
                    notes |-> ""]>>]

LogSeed(dailyLogs) ==
  [loadData(NoDoc, 1) EXCEPT !.exercises = LogExercises,
                             !.weeklyTemplate = LogTemplate,
                             !.dailyLogs = dailyLogs]

ExerciseNameInputs == {<<"a", " ">>, <<"z">>}

LogInit ==
  /\ \E dailyLogs \in {<<>>, <<StoredLog>>} :
       /\ appData = LogSeed(dailyLogs)
       /\ persisted = saveData(appData)
  /\ effects = {"saveData"}
  /\ currentView = "LOG"
  /\ editingTemplate = NoDraft
  /\ nextId = 4
  /\ clock = 1
  /\ last = Op("loadData", "changed")
  /\ currentWeekStart = getWeekStartDate(Date(Today, 0))
  /\ logsForWeek = InitializeLogs(appData, currentWeekStart)
  /\ unsavedChangesDates = {}
  /\ isMounted = TRUE
  /\ timeoutId = FALSE
  /\ args = <<>>
  /\ NoTabs

\* the exercises of the day at dailyLogIndex that the editor renders
ShownExercises(dailyLogIndex) ==
  IF dailyLogIndex \in DOMAIN logsForWeek THEN logsForWeek[dailyLogIndex].exercises
  ELSE <<>>

LogNext ==
  \/ RunEffects
  \/ \E view \in LogViews : renderView(view)
  \/ \E i \in SetChangeDays, fv \in SetFieldInputs :
       \E e \in 1..Len(ShownExercises(i)) :
         \E s \in 1..Len(ShownExercises(i)[e].sets) :
           handleSetChange(i, e, s, fv[1], fv[2])
  \/ \E i \in NoteDays, notes \in NoteInputs :
       \E e \in 1..Len(ShownExercises(i)) : handleExerciseNoteChange(i, e, notes)
  \/ \E i \in SetCountDays : \E e \in 1..Len(ShownExercises(i)) : addSet(i, e)
  \/ \E i \in SetCountDays :
       \E e \in 1..Len(ShownExercises(i)) :
         \E s \in 1..Len(ShownExercises(i)[e].sets) : removeSet(i, e, s)
  \/ \E i \in NameChangeDays, name \in ExerciseNameInputs :
       \E e \in 1..Len(ShownExercises(i)) : processExerciseNameChange(i, e, name)
  \/ \E i \in SaveDays : saveDayLogAt(i)
  \/ debouncedPerformAutoSave
  \/ \E offset \in WeekOffsets : changeWeek(offset)

SpecLog == LogInit /\ [][LogNext]_vars

\* ------------------------------------------ the seeding, whatever the hour
\* the days on which WeeklyLog is mounted (a Monday to the Sunday after)
TodayInputs == 8..14

\* a template that plans one set more than addSet allows, as the sets field
\* of Setup (max="20") and the plan parser (up to 99) let the user enter
ManySetsTemplate ==
  [EmptyTemplate EXCEPT
     ![2].exercises = <<Item(2, MAX_SETS_PER_EXERCISE + 1, "5", UndefNum)>>]

SeedTemplates == {LogTemplate, TemplateA, EmptyTemplate, ManySetsTemplate}

\* the document and the instant new Date() that a mount of WeeklyLog reads
SeedInputs ==
  {[data |-> [LogSeed(dailyLogs) EXCEPT !.weeklyTemplate = template],
    today |-> Date(day, utc)] :
     dailyLogs \in {<<>>, <<StoredLog>>}, template \in SeedTemplates,
     day \in TodayInputs, utc \in UtcInputs}

SeedInit ==
  /\ args \in SeedInputs
  /\ NoTabs
  /\ appData = args.data
  /\ persisted = saveData(appData)
  /\ effects = {}
  /\ currentView = "none"
  /\ editingTemplate = NoDraft
  /\ nextId = 4
  /\ clock = 1
  /\ last = Op("none", "none")
  /\ currentWeekStart = 0
  /\ logsForWeek = <<>>
  /\ unsavedChangesDates = {}
  /\ isMounted = FALSE
  /\ timeoutId = FALSE

\* the mount of WeeklyLog: useState(getWeekStartDate(new Date())) and the
\* effect that initializes the seven logs
MountWeeklyLog ==
  /\ ~isMounted
  /\ currentView' = "LOG"
  /\ currentWeekStart' = getWeekStartDate(args.today)
  /\ logsForWeek' = InitializeLogs(appData, currentWeekStart')
  /\ isMounted' = TRUE
  /\ last' = Op("MountWeeklyLog", "mounted")
  /\ UNCHANGED <<appData, persisted, effects, editingTemplate, nextId, clock,
                 unsavedChangesDates, timeoutId, args, tabVars>>

SeedNext == MountWeeklyLog

SpecSeed == SeedInit /\ [][SeedNext]_vars

\* ============================================================ the progress
\* A weight is a whole number of the smallest unit that the user writes,
\* and an estimated 1RM is held in thirtieths of that unit (the integer
\* 30 * x), which Epley's formula yields exactly; the rounding of the
\* floating-point product is not modelled.
Thirtieths == 30

\* calculateEpley1RM without the case of a single rep
calculateEpley1RMNoSingle(weight, reps) ==
  IF reps <= 0 \/ weight <= 0 THEN 0
  ELSE weight * (Thirtieths + reps)

calculateEpley1RM(weight, reps) ==
  IF reps <= 0 \/ weight <= 0 THEN 0
  ELSE IF reps = 1 THEN Thirtieths * weight
  ELSE weight * (Thirtieths + reps)

EpleyWeights == -1..8
EpleyReps == -1..6
EpleyInputs == [weight : EpleyWeights, reps : EpleyReps]

EpleyInit ==
  /\ args \in EpleyInputs
  /\ NoTabs
  /\ appData = loadData(NoDoc, 1)
  /\ persisted = NoDoc
  /\ effects = {}
  /\ currentView = "none"
  /\ editingTemplate = NoDraft
  /\ nextId = 2
  /\ clock = 1
  /\ last = Op("none", "none")
  /\ currentWeekStart = 0
  /\ logsForWeek = <<>>
  /\ unsavedChangesDates = {}
  /\ isMounted = FALSE
  /\ timeoutId = FALSE

CallCalculateEpley1RM ==
  /\ last.op = "none"
  /\ last' = Op("calculateEpley1RM", calculateEpley1RM(args.weight, args.reps))
  /\ UNCHANGED <<appData, persisted, effects, currentView, editingTemplate, nextId,
                 clock, otherVars>>

EpleyNext == CallCalculateEpley1RM

SpecEpley == EpleyInit /\ [][EpleyNext]_vars

\* ------------------------------------------------------- numbers in text
DigitValue(c) ==
  CASE c = "0" -> 0 [] c = "1" -> 1 [] c = "2" -> 2 [] c = "3" -> 3 [] c = "4" -> 4
    [] c = "5" -> 5 [] c = "6" -> 6 [] c = "7" -> 7 [] c = "8" -> 8 [] c = "9" -> 9

\* how many digits a text starts with
RECURSIVE LeadingDigits(_)
LeadingDigits(str) ==
  IF str # <<>> /\ IsDigit(Head(str)) THEN 1 + LeadingDigits(Tail(str)) ELSE 0

\* the number that a text of digits writes
RECURSIVE DecimalValue(_)
DecimalValue(digits) ==
  IF digits = <<>> THEN 0
  ELSE 10 * DecimalValue(SubSeq(digits, 1, Len(digits) - 1))
         + DigitValue(digits[Len(digits)])

\* the value NaN: no number, and greater than none
NaN == -1000000

\* parseFloat, in tenths: leading white space, a sign, digits and a
\* fraction are read and what follows is ignored; of the fraction the model
\* keeps the first digit, and it reads no exponent
parseFloat(str) ==
  LET t == trimStart(str)
      signed == t # <<>> /\ Head(t) \in {"-", "+"}
      u == IF signed THEN Tail(t) ELSE t
      n == LeadingDigits(u)
      rest == SubSeq(u, n + 1, Len(u))
      f == IF rest # <<>> /\ Head(rest) = "." THEN LeadingDigits(Tail(rest)) ELSE 0
      tenths == 10 * DecimalValue(SubSeq(u, 1, n))
                  + (IF f > 0 THEN DigitValue(rest[2]) ELSE 0)
  IN IF n = 0 /\ f = 0 THEN NaN
     ELSE IF signed /\ Head(t) = "-" THEN 0 - tenths ELSE tenths

\* /^\d+$/.test(repsString)
IsWholeNumber(repsString) ==
  repsString # <<>> /\ LeadingDigits(repsString) = Len(repsString)

\* parseFloat(x.toFixed(2)): a value in thirtieths of a tenth, rounded to
\* hundredths (a third of a hundredth is never a tie)
toFixed2(x) == (2 * x + 3) \div 6

\* ------------------------------------------------------ calculate1RMData
\* the estimate of one set, 0 when the set does not count
Set1RM(set) ==
  LET weight == parseFloat(set.weight)
      repsString == trim(set.reps)
  IN IF IsWholeNumber(repsString) /\ weight # NaN /\ weight > 0
          /\ DecimalValue(repsString) > 0
     THEN calculateEpley1RM(weight, DecimalValue(repsString))
     ELSE 0

\* max1RMForDay after the sets were gone through, were it the last estimate
RECURSIVE Max1RMLastSet(_)
Max1RMLastSet(sets) ==
  IF sets = <<>> THEN 0
  ELSE IF Set1RM(sets[Len(sets)]) > 0 THEN Set1RM(sets[Len(sets)])
  ELSE Max1RMLastSet(SubSeq(sets, 1, Len(sets) - 1))

\* max1RMForDay after the sets were gone through
RECURSIVE Max1RM(_)
Max1RM(sets) ==
  IF sets = <<>> THEN 0
  ELSE LET before == Max1RM(SubSeq(sets, 1, Len(sets) - 1))
           current1RM == Set1RM(sets[Len(sets)])
       IN IF current1RM > before THEN current1RM ELSE before

\* the points that one log contributes, in the order of its exercises
RECURSIVE PointsOfLog(_, _)
PointsOfLog(log, upTo) ==
  IF upTo = 0 THEN <<>>
  ELSE LET loggedEx == log.exercises[upTo]
           max1RMForDay == Max1RM(loggedEx.sets)
       IN PointsOfLog(log, upTo - 1) \o
            (IF max1RMForDay > 0
             THEN <<[date |-> log.date, exerciseName |-> loggedEx.name,
                     predicted1RM |-> toFixed2(max1RMForDay)]>>
             ELSE <<>>)

RECURSIVE PointsOfLogs(_)
PointsOfLogs(logs) ==
  IF logs = <<>> THEN <<>>
  ELSE PointsOfLogs(SubSeq(logs, 1, Len(logs) - 1))
         \o PointsOfLog(logs[Len(logs)], Len(logs[Len(logs)].exercises))

calculate1RMData(data) == SortByDate(PointsOfLogs(data.dailyLogs))

\* logged sets: weights of 5, 10 and 7.5 with reps that count, and sets
\* that do not count for want of a weight, of a whole number of reps, or of
\* a weight or reps above 0
ProgressSets ==
  {ExerciseSet(1, <<"5">>, <<"3">>, TRUE),
   ExerciseSet(1, <<"1", "0">>, <<"5">>, FALSE),
   ExerciseSet(1, <<"7", ".", "5">>, <<" ", "1", " ">>, TRUE),
   ExerciseSet(1, <<>>, <<"5">>, TRUE),
   ExerciseSet(1, <<"5">>, <<"3", "s">>, TRUE),
   ExerciseSet(1, <<"0">>, <<"5">>, TRUE),
   ExerciseSet(1, <<"5">>, <<"0">>, TRUE)}

ProgressSetLists ==
  {<<>>} \cup {<<a>> : a \in ProgressSets} \cup {<<a, b>> : a, b \in ProgressSets}

LoggedA(sets) == [exerciseId |-> 2, name |-> <<"a">>, sets |-> sets, notes |-> ""]
LoggedB == [exerciseId |-> 3, name |-> <<"b">>,
            sets |-> <<ExerciseSet(1, <<"5">>, <<"3">>, TRUE)>>, notes |-> ""]

\* stored logs: one day with one or two exercises, or two days
ProgressLogs ==
  {<<>>}
    \cup {<<[date |-> 8, exercises |-> <<LoggedA(sets)>>]>> : sets \in ProgressSetLists}
    \cup {<<[date |-> 8, exercises |-> <<LoggedA(<<a>>), LoggedB>>]>> : a \in ProgressSets}
    \cup {<<[date |-> 8, exercises |-> <<LoggedB>>],
            [date |-> 9, exercises |-> <<LoggedA(<<a>>), LoggedB>>]>> : a \in ProgressSets}

ProgressInit ==
  /\ \E dailyLogs \in ProgressLogs : appData = LogSeed(dailyLogs)
  /\ args = <<>>
  /\ NoTabs
  /\ persisted = saveData(appData)
  /\ effects = {}
  /\ currentView = "none"
  /\ editingTemplate = NoDraft
  /\ nextId = 4
  /\ clock = 1
  /\ last = Op("none", "none")
  /\ currentWeekStart = 0
  /\ logsForWeek = <<>>
  /\ unsavedChangesDates = {}
  /\ isMounted = FALSE
  /\ timeoutId = FALSE

\* ProgressChart renders: useMemo(() => calculate1RMData(data), [data])
CallCalculate1RMData ==
  /\ last.op = "none"
  /\ currentView' = "PROGRESS"
  /\ last' = Op("calculate1RMData", calculate1RMData(appData))
  /\ UNCHANGED <<appData, persisted, effects, editingTemplate, nextId, clock, otherVars>>

ProgressNext == CallCalculate1RMData

SpecProgress == ProgressInit /\ [][ProgressNext]_vars

\* ============================================================ the calendar
\* totalPlannedSets after the first upTo exercises of the template's day
RECURSIVE TotalPlannedSets(_, _)
TotalPlannedSets(exercises, upTo) ==
  IF upTo = 0 THEN 0
  ELSE TotalPlannedSets(exercises, upTo - 1) + exercises[upTo].targetSets

\* what one template exercise adds to totalCompletedSets
CompletedSetsOf(templateExercise, dailyLog) ==
  LET le == FindIndex(Test(dailyLog.exercises,
                           LAMBDA ex : ex.exerciseId = templateExercise.exerciseId))
  IN IF le = 0 THEN 0
     ELSE Cardinality({k \in 1..Len(dailyLog.exercises[le].sets) :
                         /\ dailyLog.exercises[le].sets[k].completed
                         /\ dailyLog.exercises[le].sets[k].setNumber
                              <= templateExercise.targetSets})

\* totalCompletedSets after the first upTo exercises of the template's day
RECURSIVE TotalCompletedSets(_, _, _)
TotalCompletedSets(exercises, dailyLog, upTo) ==
  IF upTo = 0 THEN 0
  ELSE TotalCompletedSets(exercises, dailyLog, upTo - 1)
         + CompletedSetsOf(exercises[upTo], dailyLog)

getDayStatus(date, logs, template) ==
  LET isoDate == formatDateISO(date)
      dayOfWeek == getDay(date)
      templateDay == FindIndex(Test(template, LAMBDA d : d.dayOfWeek = dayOfWeek))
      dailyLog == FindIndex(Test(logs, LAMBDA log : log.date = isoDate))
  IN IF templateDay = 0 \/ Len(template[templateDay].exercises) = 0 THEN "rest"
     ELSE IF dailyLog = 0 \/ Len(logs[dailyLog].exercises) = 0
     THEN IF \E j \in 1..Len(template[templateDay].exercises) :
               template[templateDay].exercises[j].targetSets > 0
          THEN "empty" ELSE "rest"
     ELSE LET exercises == template[templateDay].exercises
              totalPlannedSets == TotalPlannedSets(exercises, Len(exercises))
              totalCompletedSets ==
                TotalCompletedSets(exercises, logs[dailyLog], Len(exercises))
          IN IF totalPlannedSets = 0 THEN "rest"
             ELSE IF totalCompletedSets = 0 THEN "empty"
             ELSE IF totalCompletedSets < totalPlannedSets THEN "partial"
             ELSE "completed"

\* the days of the calendar: the week of Today, Sunday to Saturday
CalendarDays == 7..13

\* new Date(year, month, d) is a local midnight: in UTC it is the same
\* calendar day west of Greenwich and the day before east of it
MidnightUtcInputs == {-1, 0}

\* Monday: a, 2 sets, and b, 1 set; Tuesday: b with no sets planned
CalendarTemplates ==
  {[EmptyTemplate EXCEPT ![2].exercises = <<Item(2, 2, "5", UndefNum),
                                            Item(3, 1, "5", UndefNum)>>,
                         ![3].exercises = <<Item(3, 0, "5", UndefNum)>>],
   LogTemplate}

\* the sets logged for a: none, some or all of the two planned, a third
\* one, and what is stored when set 1 was left unfilled
CalendarSetsOfA ==
  {<<>>,
   <<ExerciseSet(1, <<"5">>, <<"5">>, TRUE)>>,
   <<ExerciseSet(1, <<"5">>, <<"5">>, FALSE), ExerciseSet(2, <<"5">>, <<"5">>, TRUE)>>,
   <<ExerciseSet(1, <<"5">>, <<"5">>, TRUE), ExerciseSet(2, <<"5">>, <<"5">>, TRUE)>>,
   <<ExerciseSet(1, <<"5">>, <<"5">>, TRUE), ExerciseSet(2, <<"5">>, <<"5">>, TRUE),
     ExerciseSet(3, <<"5">>, <<"5">>, TRUE)>>,
   <<ExerciseSet(1, <<"5">>, <<"5">>, TRUE), ExerciseSet(2, <<"5">>, <<"5">>, FALSE),
     ExerciseSet(3, <<"5">>, <<"5">>, TRUE)>>,
   <<ExerciseSet(3, <<"5">>, <<"5">>, TRUE)>>}

CalendarSetsOfB ==
  {<<>>, <<ExerciseSet(1, <<"5">>, <<"5">>, TRUE)>>,
   <<ExerciseSet(1, <<"5">>, <<"5">>, TRUE), ExerciseSet(2, <<"5">>, <<"5">>, TRUE)>>}

\* stored logs: none, or one for the Monday or the Tuesday of the week
CalendarLogs ==
  {<<>>, <<[date |-> 8, exercises |-> <<>>]>>}
    \cup {<<[date |-> date,
             exercises |-> <<LoggedA(setsOfA),
                             [exerciseId |-> 3, name |-> <<"b">>,
                              sets |-> setsOfB, notes |-> ""]>>]>> :
            date \in {8, 9}, setsOfA \in CalendarSetsOfA, setsOfB \in CalendarSetsOfB}
    \cup {<<[date |-> 8, exercises |-> <<LoggedA(setsOfA)>>]>> :
            setsOfA \in CalendarSetsOfA}

\* the document that MonthlyCalendarView is given and the day of one cell
CalendarInputs ==
  {[data |-> [LogSeed(dailyLogs) EXCEPT !.weeklyTemplate = template],
    date |-> Date(day, utc)] :
     dailyLogs \in CalendarLogs, template \in CalendarTemplates,
     day \in CalendarDays, utc \in MidnightUtcInputs}

CalendarInit ==
  /\ args \in CalendarInputs
  /\ NoTabs
  /\ appData = args.data
  /\ persisted = saveData(appData)
  /\ effects = {}
  /\ currentView = "none"
  /\ editingTemplate = NoDraft
  /\ nextId = 4
  /\ clock = 1
  /\ last = Op("none", "none")
  /\ currentWeekStart = 0
  /\ logsForWeek = <<>>
  /\ unsavedChangesDates = {}
  /\ isMounted = FALSE
  /\ timeoutId = FALSE

\* MonthlyCalendarView renders the cell of a day of the month
CallGetDayStatus ==
  /\ last.op = "none"
  /\ currentView' = "CALENDAR"
  /\ last' = Op("getDayStatus",
                getDayStatus(args.date, appData.dailyLogs, appData.weeklyTemplate))
  /\ UNCHANGED <<appData, persisted, effects, editingTemplate, nextId, clock, otherVars>>

CalendarNext == CallGetDayStatus

SpecCalendar == CalendarInit /\ [][CalendarNext]_vars

\* ========================================================== the plan text
\* the characters of a text
Text(str) == [i \in 1..Len(str) |-> SubSeq(str, i, i)]

DAYS_OF_WEEK ==
  <<Text("Sunday"), Text("Monday"), Text("Tuesday"), Text("Wednesday"),
    Text("Thursday"), Text("Friday"), Text("Saturday")>>

\* String.prototype.indexOf(pattern, from), counted from 1: 0 when the
\* pattern does not occur at or after from
indexOf(s, pattern, from) ==
  LET hits == {p \in from..(Len(s) - Len(pattern) + 1) :
                 SubSeq(s, p, p + Len(pattern) - 1) = pattern}
  IN IF hits = {} THEN 0 ELSE CHOOSE p \in hits : \A q \in hits : p <= q

\* String.prototype.includes
includes(s, pattern) == indexOf(s, pattern, 1) # 0

\* String.prototype.split on one character
RECURSIVE split(_, _)
split(s, separator) ==
  LET at == indexOf(s, <<separator>>, 1)
  IN IF at = 0 THEN <<s>>
     ELSE <<SubSeq(s, 1, at - 1)>> \o split(SubSeq(s, at + 1, Len(s)), separator)

\* split(/\s+/).filter(p => p.length > 0)
RECURSIVE SplitOnWhiteSpace(_)
SplitOnWhiteSpace(s) ==
  LET t == trimStart(s)
      stop == indexOf(t, <<" ">>, 1)
      n == IF stop = 0 THEN Len(t) ELSE stop - 1
  IN IF t = <<>> THEN <<>>
     ELSE <<SubSeq(t, 1, n)>> \o SplitOnWhiteSpace(SubSeq(t, n + 1, Len(t)))

\* Array.prototype.join(" ")
RECURSIVE join(_)
join(parts) ==
  IF parts = <<>> THEN <<>>
  ELSE IF Len(parts) = 1 THEN parts[1]
  ELSE parts[1] \o <<" ">> \o join(Tail(parts))

\* a text that is null or undefined
UndefText == <<UndefStr>>

\* the null that extractWorkoutFromTextBlock returns
NoPlanItem == [null |-> TRUE]

\* /^\d+(s|ea|S|EA)?$/
PotentialRepsPattern(potentialReps) ==
  LET n == LeadingDigits(potentialReps)
  IN /\ n > 0
     /\ SubSeq(potentialReps, n + 1, Len(potentialReps))
          \in {<<>>, <<"s">>, <<"e", "a">>, <<"S">>, <<"E", "A">>}

\* toLowerCase().endsWith('s')
EndsWithS(str) == str # <<>> /\ toLowerChar(str[Len(str)]) = "s"

\* repsStr when the loop of extractWorkoutFromTextBlock breaks, setsStr
\* being parts[setsIndex]
RepsAfterSets(parts, setsIndex) ==
  IF setsIndex + 1 > Len(parts) \/ ~PotentialRepsPattern(parts[setsIndex + 1])
  THEN UndefText
  ELSE LET potentialReps == parts[setsIndex + 1]
           next == IF setsIndex + 2 <= Len(parts)
                   THEN toLowerCase(parts[setsIndex + 2]) ELSE UndefText
           afterNext == IF setsIndex + 3 <= Len(parts)
                        THEN toLowerCase(parts[setsIndex + 3]) ELSE UndefText
       IN IF /\ IsWholeNumber(potentialReps) \/ EndsWithS(potentialReps)
             /\ next = <<"e", "a">>
             /\ EndsWithS(potentialReps)
          THEN potentialReps \o <<" ">> \o parts[setsIndex + 2]
          ELSE IF IsWholeNumber(potentialReps) /\ next \in {<<"s">>, <<"e", "a">>}
          THEN potentialReps \o <<" ">> \o parts[setsIndex + 2]
                 \o (IF next = <<"s">> /\ afterNext = <<"e", "a">>
                     THEN <<" ">> \o parts[setsIndex + 3] ELSE <<>>)
          ELSE potentialReps

\* !(isNaN(sets) || sets <= 0 || sets >= 100)
SetsInRange(sets) == sets > 0 /\ sets < 100

extractWorkoutFromTextBlock(textBlock) ==
  LET blockContent == trim(textBlock)
      parts == SplitOnWhiteSpace(blockContent)
      setsIndex == FindIndex(Test(parts, IsWholeNumber))
      movementParts == IF setsIndex = 0 THEN parts ELSE SubSeq(parts, 1, setsIndex - 1)
      name == trim(join(movementParts))
      sets == DecimalValue(parts[setsIndex])
      found == RepsAfterSets(parts, setsIndex)
      checked == IF found # UndefText /\ ~RepPattern(trim(found))
                    /\ ~IsWholeNumber(trim(found))
                 THEN UndefText ELSE found
      repsStr == IF checked = UndefText /\ setsIndex + 1 <= Len(parts)
                    /\ IsWholeNumber(parts[setsIndex + 1])
                 THEN parts[setsIndex + 1] ELSE checked
  IN IF blockContent = <<>> \/ Len(parts) < 2 THEN NoPlanItem
     ELSE IF name = <<>> \/ setsIndex = 0 THEN NoPlanItem
     ELSE IF ~SetsInRange(sets) THEN NoPlanItem
     ELSE [name |-> name, targetSets |-> sets,
           targetReps |-> IF repsStr = UndefText THEN UndefText ELSE trim(repsStr)]

\* the items that the text blocks of a day yield, numbered as they come
RECURSIVE ParsedItems(_)
ParsedItems(blocks) ==
  IF blocks = <<>> THEN <<>>
  ELSE LET before == ParsedItems(SubSeq(blocks, 1, Len(blocks) - 1))
           parsedItemBase == extractWorkoutFromTextBlock(blocks[Len(blocks)])
       IN IF parsedItemBase = NoPlanItem THEN before
          ELSE Append(before,
                      [name |-> parsedItemBase.name,
                       targetSets |-> parsedItemBase.targetSets,
                       targetReps |-> parsedItemBase.targetReps,
                       originalIndex |-> Len(before)])

\* the line of the first 5 that is the name of a weekday (0 when none) and
\* the weekday that it names
DetectedDay(lines) ==
  LET IsDayName(line) ==
        \E d \in 1..NumDays :
          toLowerCase(DAYS_OF_WEEK[d]) = toLowerCase(trim(line))
      first == IF Len(lines) < 5 THEN Len(lines) ELSE 5
      at == FindIndex([i \in 1..first |-> IsDayName(lines[i])])
  IN IF at = 0 THEN [lineOfDayName |-> 0, detectedDayOfWeek |-> UndefNum]
     ELSE [lineOfDayName |-> at,
           detectedDayOfWeek |->
             (CHOOSE d \in 1..NumDays :
                toLowerCase(DAYS_OF_WEEK[d]) = toLowerCase(trim(lines[at]))) - 1]

\* the header row is the line below the one after which the data start
DataStartAtHeader(headerLine) == headerLine

\* dataLinesStartAtIndex
DataStart(headerLine) == headerLine + 1

\* the header row: the first line from searchStart on with "movement",
\* "sets" and "reps", or else the first one with "movement" and "sets";
\* 0 when there is none
HeaderLine(lines, searchStart) ==
  LET Has(line, word) == includes(toLowerCase(line), Text(word))
      full == FindIndex([i \in 1..Len(lines) |->
                /\ i >= searchStart
                /\ Has(lines[i], "movement") /\ Has(lines[i], "sets")
                /\ Has(lines[i], "reps")])
      short == FindIndex([i \in 1..Len(lines) |->
                 /\ i >= searchStart
                 /\ Has(lines[i], "movement") /\ Has(lines[i], "sets")])
  IN IF full # 0 THEN full ELSE short

\* the positions in the header at which "movement" starts
RECURSIVE ColStarts(_, _)
ColStarts(headerLineContent, from) ==
  LET currentPos == indexOf(toLowerCase(headerLineContent), Text("movement"), from)
  IN IF currentPos = 0 THEN <<>>
     ELSE <<currentPos>> \o ColStarts(headerLineContent, currentPos + 1)

\* weekdays in the order of the calendar
dayOrderInARow == <<1, 2, 3, 4>>

dayOrderForColumns == <<1, 2, 4, 5>>

\* currentLine.substring(blockStart, blockEnd) for the i-th column
ColumnBlock(currentLine, colStarts, headerLength, i) ==
  LET start == colStarts[i] - 1
      end == IF i + 1 <= Len(colStarts) THEN colStarts[i + 1] - 2 ELSE headerLength
      blockStart == IF start < Len(currentLine) THEN start ELSE Len(currentLine)
      blockEnd == IF end + 1 < Len(currentLine) THEN end + 1 ELSE Len(currentLine)
  IN SubSeq(currentLine, blockStart + 1, blockEnd)

NotBlank(currentLine) == trim(currentLine) # <<>>

NotEmptyDay(day) == day.exercises # <<>>

\* the result holds its days in ascending order of the weekday
parseFullWorkoutPlanFromText(rawText) ==
  LET untrimmed == split(trim(rawText), "\n")
      lines == [i \in 1..Len(untrimmed) |-> trimEnd(untrimmed[i])]
      day == DetectedDay(lines)
      headerLine == HeaderLine(lines, day.lineOfDayName + 1)
      dataLines == SelectSeq(SubSeq(lines, DataStart(headerLine), Len(lines)), NotBlank)
      colStarts == ColStarts(lines[headerLine], 1)
      columns == IF Len(colStarts) < Len(dayOrderForColumns)
                 THEN Len(colStarts) ELSE Len(dayOrderForColumns)
  IN IF headerLine = 0 THEN <<>>
     ELSE IF day.detectedDayOfWeek # UndefNum
     THEN <<[dayOfWeek |-> day.detectedDayOfWeek, exercises |-> ParsedItems(dataLines)]>>
     ELSE SelectSeq(
            [i \in 1..columns |->
               [dayOfWeek |-> dayOrderForColumns[i],
                exercises |->
                  ParsedItems([l \in 1..Len(dataLines) |->
                                 ColumnBlock(dataLines[l], colStarts,
                                             Len(lines[headerLine]), i)])]],
            NotEmptyDay)

\* ---------------------------------------------------------- pasted texts
\* the width of a column of a pasted table
ColumnWidth == 20

\* a cell of a table: a text filled up with spaces to the width of a column
Cell(str) == Text(str) \o [i \in 1..(ColumnWidth - Len(str)) |-> " "]

RECURSIVE Row(_)
Row(cells) == IF cells = <<>> THEN <<>> ELSE Cell(Head(cells)) \o Row(Tail(cells))

Line(chars) == chars \o <<"\n">>

\* what may stand first: nothing, the name of a weekday, or a longer word
PlanLabels ==
  {<<>>, Line(Text("Monday")), Line(Text(" friday ")), Line(Text("Mondays"))}

\* a row above the header that reads like an exercise
PlanPreambles == {<<>>, Line(Text("Plank 3 5"))}

\* headers: none, one without "movement", one without "reps", one that
\* reads like an exercise, and tables of 1, 2 and 5 columns
PlanHeaders ==
  {<<>>,
   Line(Text("Exercise Sets Reps")),
   Line(Text("movement sets")),
   Line(Text("Movement Sets Reps 3 5")),
   Line(Row(<<"Movement  Sets Reps">>)),
   Line(Row(<<"Movement  Sets Reps", "MOVEMENT  SETS REPS">>)),
   Line(Row(<<"Movement  Sets Reps", "Movement  Sets Reps", "Movement  Sets Reps",
              "Movement  Sets Reps", "Movement  Sets Reps">>))}

\* the rows below: none, rows of a single column, and rows of five and of
\* three columns, with sets out of range, reps with a suffix, an empty cell
PlanRows ==
  {<<>>,
   Line(Text("Squat 3 5")) \o Line(Text("")) \o Line(Text("Bench Press 4 8s ea")),
   Line(Text("Rest")) \o Line(Text("Row 100 5")) \o Line(Text("Row 0 5"))
     \o Line(Text("Curl 99 8 Ea")),
   Line(Row(<<"Squat     3    5", "Bench     3    8 s", "Row       2    5",
              "Curl      1    10ea", "Dips      5    5">>))
     \o Line(Row(<<"Lunge     2    8", "", "Pull Up   3    6">>)),
   Line(Row(<<"", "Bench     3    8">>))
     \o Line(Row(<<"Squat     3    5", "Row       2    5 s ea">>))}

PlanTexts ==
  {label \o preamble \o header \o rows :
     label \in PlanLabels, preamble \in PlanPreambles,
     header \in PlanHeaders, rows \in PlanRows}

PlanTextInit ==
  /\ args \in PlanTexts
  /\ NoTabs
  /\ appData = LogSeed(<<>>)
  /\ persisted = saveData(appData)
  /\ effects = {}
  /\ currentView = "none"
  /\ editingTemplate = NoDraft
  /\ nextId = 4
  /\ clock = 1
  /\ last = Op("none", "none")
  /\ currentWeekStart = 0
  /\ logsForWeek = <<>>
  /\ unsavedChangesDates = {}
  /\ isMounted = FALSE
  /\ timeoutId = FALSE

\* ExerciseSetup parses the text pasted into the plan field
CallParseFullWorkoutPlanFromText ==
  /\ last.op = "none"
  /\ currentView' = "SETUP"
  /\ last' = Op("parseFullWorkoutPlanFromText", parseFullWorkoutPlanFromText(args))
  /\ UNCHANGED <<appData, persisted, effects, editingTemplate, nextId, clock, otherVars>>

PlanTextNext == CallParseFullWorkoutPlanFromText

SpecPlanText == PlanTextInit /\ [][PlanTextNext]_vars

\* ================================================================ the tabs
\* Each browser tab runs its own App over the one localStorage entry.
Tabs == {1, 2}

NoTab == [mounted |-> FALSE, loaded |-> NoDoc, appData |-> NoDoc, effects |-> {}]

\* a useState that takes its argument at every render
useStateAtEveryRender(state, initialState, mounted) == initialState

\* useState(initialState): the argument counts at the first render only
useState(state, initialState, mounted) == IF mounted THEN state ELSE initialState

\* the names added and the log saved in a tab
TabNameInputs == {<<"a">>, <<"b">>}
TabLogInputs == {StoredLog}

\* the tab is opened: useState(loadData()), and the first render schedules
\* the effect that saves
TabMount(t) ==
  LET initialState == loadData(persisted, nextId)
  IN /\ ~tabs[t].mounted
     /\ initialState.userId = nextId => nextId <= MaxIds
     /\ tabs' = [tabs EXCEPT ![t] =
                   [mounted |-> TRUE, loaded |-> persisted,
                    appData |-> useState(tabs[t].appData, initialState, FALSE),
                    effects |-> {"saveData"}]]
     /\ nextId' = IF initialState.userId = nextId THEN nextId + 1 ELSE nextId
     /\ last' = Op("loadData", t)
     /\ UNCHANGED <<appData, persisted, effects, currentView, editingTemplate, clock,
                    weeklyLogVars, args, lastSaver>>

TabIdle(t) == tabs[t].mounted /\ tabs[t].effects = {}

\* the effect of the tab's App: saveData(appData)
TabRunEffects(t) ==
  /\ tabs[t].mounted
  /\ tabs[t].effects # {}
  /\ tabs' = [tabs EXCEPT ![t].appData = SavedData(@), ![t].effects = {}]
  /\ persisted' = saveData(tabs[t].appData)
  /\ lastSaver' = t
  /\ last' = Op("saveData", t)
  /\ UNCHANGED <<appData, effects, currentView, editingTemplate, nextId, clock,
                 weeklyLogVars, args>>

\* a render of the tab's App without a change of its document, as after
\* setCurrentView: useState(loadData()) is evaluated again
TabRender(t) ==
  /\ TabIdle(t)
  /\ tabs' = [tabs EXCEPT ![t].appData =
                useState(@, loadData(persisted, nextId), TRUE)]
  /\ last' = Op("setCurrentView", t)
  /\ UNCHANGED <<appData, persisted, effects, currentView, editingTemplate, nextId,
                 clock, weeklyLogVars, args, lastSaver>>

\* handleDataChange in the tab: setAppData, and the render that follows
\* schedules the save
TabDataChange(t, newData) ==
  tabs' = [tabs EXCEPT ![t].appData =
             useState(newData, loadData(persisted, nextId), TRUE),
                       ![t].effects = {"saveData"}]

\* an exercise is added in the tab
TabAddExercise(t, name) ==
  LET trimmedName == trim(name)
      r == addExercise(tabs[t].appData, trimmedName, nextId)
  IN /\ TabIdle(t)
     /\ r.newExercise.id = nextId
     /\ nextId <= MaxIds
     /\ Len(r.newData.exercises) <= MaxExercises
     /\ TabDataChange(t, r.newData)
     /\ nextId' = nextId + 1
     /\ last' = Op("handleAddExerciseManually", t)
     /\ UNCHANGED <<appData, persisted, effects, currentView, editingTemplate, clock,
                    weeklyLogVars, args, lastSaver>>

\* a day of the log is saved in the tab
TabSaveDayLog(t, cleanedLogToSave) ==
  /\ TabIdle(t)
  /\ getDailyLog(tabs[t].appData, cleanedLogToSave.date) = NoLog
  /\ TabDataChange(t, upsertDailyLog(tabs[t].appData, cleanedLogToSave))
  /\ last' = Op("saveDayLog", t)
  /\ UNCHANGED <<appData, persisted, effects, currentView, editingTemplate, nextId,
                 clock, weeklyLogVars, args, lastSaver>>

\* no tab is open yet; localStorage is empty or holds the document of an
\* earlier session
TabsInit ==
  /\ persisted \in {NoDoc, saveData(loadData(NoDoc, 1))}
  /\ tabs = [t \in Tabs |-> NoTab]
  /\ lastSaver = 0
  /\ appData = loadData(NoDoc, 1)
  /\ effects = {}
  /\ currentView = "none"
  /\ editingTemplate = NoDraft
  /\ nextId = 2
  /\ clock = 1
  /\ last = Op("none", 0)
  /\ currentWeekStart = 0
  /\ logsForWeek = <<>>
  /\ unsavedChangesDates = {}
  /\ isMounted = FALSE
  /\ timeoutId = FALSE
  /\ args = <<>>

TabsNext ==
  \E t \in Tabs :
    \/ TabMount(t)
    \/ TabRunEffects(t)
    \/ TabRender(t)
    \/ \E name \in TabNameInputs : TabAddExercise(t, name)
    \/ \E log \in TabLogInputs : TabSaveDayLog(t, log)

SpecTabs == TabsInit /\ [][TabsNext]_vars

\* ============================================================== properties
\* ------------------------------------------------- the exercise list
SameNameIgnoringCase(a, b) == toLowerCase(a) = toLowerCase(b)

\* C3: starting from the empty list, after any sequence of addExercise calls
\* no two exercises of the document have names that are equal ignoring
\* case, and a call with a name that the list already holds (ignoring case
\* and surrounding blanks) returns the exercise of the list that has the
\* name and leaves the document as it was.
ExercisesUniqueByName ==
  [][\A name \in NameInputs :
       last'.op = "addExercise" /\ CallAddExercise(name) =>
         /\ \A i, j \in 1..Len(appData'.exercises) :
              SameNameIgnoringCase(appData'.exercises[i].name,
                                   appData'.exercises[j].name) => i = j
         /\ \A i \in 1..Len(appData.exercises) :
              SameNameIgnoringCase(appData.exercises[i].name, trim(name)) =>
                /\ addExercise(appData, name, nextId).newExercise = appData.exercises[i]
                /\ appData' = appData
                /\ last'.ret = "exists"]_vars

\* a name of the list was added again and the list, which holds the name
\* in capitals and one other name, is as it was
ExercisesUniqueByNameWitness ==
  /\ last = Op("addExercise", "exists")
  /\ Len(appData.exercises) = 2
  /\ \E i \in 1..2 : appData.exercises[i].name = <<"A">>

IsSortedByName(exercises) ==
  \A i, j \in 1..Len(exercises) :
     i < j => localeCompare(exercises[i].name, exercises[j].name) <= 0

\* C4: after every saveData, and after every addExercise that adds an
\* exercise, the exercises of the document are in ascending order of name.
ExercisesSortedOnSave ==
  (last.op = "saveData" \/ last = Op("addExercise", "added"))
    => IsSortedByName(appData.exercises)

\* an exercise was added whose name sorts before one added earlier
ExercisesSortedOnSaveWitness ==
  /\ last = Op("addExercise", "added")
  /\ Len(appData.exercises) >= 2
  /\ \E i \in 1..Len(appData.exercises) :
       \E j \in (i + 1)..Len(appData.exercises) :
          appData.exercises[i].id > appData.exercises[j].id

\* -------------------------------------------------------------- loading
StoredHas(k) == k \in DOMAIN persisted

\* C5: for every stored document, none at all included, loadData returns a
\* document whose weeklyTemplate has seven entries, each with a weekday and
\* an exercise list, where entry i has weekday i and no exercises when the
\* stored template was missing or not seven long or its slot i was null,
\* and the weekday i or no exercises when the slot lacked that field; whose
\* exercises, dailyLogs and groups are empty when the stored document had
\* none; and whose userId is not empty.
LoadRepairsShape ==
  last.op = "loadData" =>
    /\ Len(appData.weeklyTemplate) = NumDays
    /\ \A i \in 1..NumDays :
         LET day == appData.weeklyTemplate[i]
             replaced == \/ ~StoredHas("weeklyTemplate")
                         \/ Len(persisted.weeklyTemplate) # NumDays
         IN /\ DOMAIN day = {"dayOfWeek", "exercises"}
            /\ DOMAIN day.exercises = 1..Len(day.exercises)
            /\ \/ replaced
               \/ "dayOfWeek" \notin DOMAIN persisted.weeklyTemplate[i]
               => day.dayOfWeek = i - 1
            /\ \/ replaced
               \/ "exercises" \notin DOMAIN persisted.weeklyTemplate[i]
               => day.exercises = <<>>
    /\ ~StoredHas("exercises") => appData.exercises = <<>>
    /\ ~StoredHas("dailyLogs") => appData.dailyLogs = <<>>
    /\ ~StoredHas("groups") => appData.groups = <<>>
    /\ appData.userId # Undefined

\* a document was loaded that held an empty userId, no groups and a
\* template of seven slots with a null one
LoadRepairsShapeWitness ==
  /\ last.op = "loadData"
  /\ StoredHas("userId") /\ persisted.userId = Undefined
  /\ ~StoredHas("groups")
  /\ StoredHas("weeklyTemplate")
  /\ Len(persisted.weeklyTemplate) = NumDays
  /\ persisted.weeklyTemplate[4] = NullSlot
  /\ appData.weeklyTemplate[4] = [dayOfWeek |-> 3, exercises |-> <<>>]
  /\ appData.weeklyTemplate[2] = TemplateA[2]
  /\ appData.userId = 4

\* ------------------------------------------------------ templates and groups
HasGroup(data, groupId) == \E i \in 1..Len(data.groups) : data.groups[i].id = groupId

\* C2: in every reachable state of the document weeklyTemplate has exactly
\* seven entries, one for each weekday 0..6.
TemplateHasSevenDays ==
  /\ Len(appData.weeklyTemplate) = NumDays
  /\ \A day \in 0..(NumDays - 1) :
       \E i \in 1..Len(appData.weeklyTemplate) :
          appData.weeklyTemplate[i].dayOfWeek = day

\* C7: applyGroupTemplateToUser for a group of the document sets
\* weeklyTemplate to that group's sharedTemplate and activeSyncedGroupId to
\* its id and leaves dailyLogs, exercises, groups and userId as they were;
\* for an id that no group has, the document stays as it was.
SyncAdoptsTemplateOnly ==
  [][\A groupId \in GroupIdInputs :
       last'.op = "applyGroupTemplateToUser" /\ CallApplyGroupTemplateToUser(groupId) =>
         IF HasGroup(appData, groupId)
         THEN /\ \E i \in 1..Len(appData.groups) :
                   /\ appData.groups[i].id = groupId
                   /\ appData'.weeklyTemplate = appData.groups[i].sharedTemplate
              /\ appData'.activeSyncedGroupId = groupId
              /\ appData'.dailyLogs = appData.dailyLogs
              /\ appData'.exercises = appData.exercises
              /\ appData'.groups = appData.groups
              /\ appData'.userId = appData.userId
         ELSE appData' = appData]_vars

\* the template of the imported group was adopted over a template saved
\* before, with the logged day and the exercise in place
SyncAdoptsTemplateOnlyWitness ==
  /\ last = Op("applyGroupTemplateToUser", "changed")
  /\ appData.activeSyncedGroupId = ForeignGroupId
  /\ appData.weeklyTemplate = TemplateB
  /\ HasGroup(appData, 3)
  /\ appData.dailyLogs = <<LogA>>
  /\ Len(appData.exercises) = 1

\* C9: the sharedTemplate of a group changes only by
\* updateGroupSharedTemplate on that group or by the import of a copy of
\* that group; saving the weekly template changes no group, and a change of
\* a sharedTemplate (by its owner or by import) leaves weeklyTemplate as it
\* was.
SharedTemplateFrozen ==
  [][/\ \A i \in 1..Len(appData.groups), j \in 1..Len(appData'.groups) :
          /\ appData.groups[i].id = appData'.groups[j].id
          /\ appData.groups[i].sharedTemplate # appData'.groups[j].sharedTemplate
          => \/ CallUpdateGroupSharedTemplate(appData.groups[i].id)
             \/ \E json \in WellFormedImports :
                   /\ json.id = appData.groups[i].id
                   /\ CallAddGroupFromImport(json)
     /\ last'.op = "updateWeeklyTemplate" => appData'.groups = appData.groups
     /\ last'.op \in {"updateGroupSharedTemplate", "addGroupFromImport"}
        => appData'.weeklyTemplate = appData.weeklyTemplate]_vars

\* a newer copy of the group synced with was imported: the group holds the
\* new template, the weekly template is the one adopted before
SharedTemplateFrozenWitness ==
  /\ last = Op("addGroupFromImport", NoError)
  /\ appData.activeSyncedGroupId = ForeignGroupId
  /\ appData.weeklyTemplate = TemplateB
  /\ \E i \in 1..Len(appData.groups) :
       /\ appData.groups[i].id = ForeignGroupId
       /\ appData.groups[i].sharedTemplate = ShortTemplate
       /\ appData.groups[i].lastUpdated = 2

\* C10: createGroup with a name that is not blank appends one group, owned
\* by the user of the document and sharing the weeklyTemplate of the moment,
\* and leaves the groups there were, the template, the logs and
\* activeSyncedGroupId as they were; with a blank name the document stays
\* as it was.
CreateGroupAppendsOne ==
  [][\A groupName \in GroupNameInputs :
       last'.op = "createGroup" /\ CallCreateGroup(groupName) =>
         IF trim(groupName) # <<>>
         THEN /\ Len(appData'.groups) = Len(appData.groups) + 1
              /\ SubSeq(appData'.groups, 1, Len(appData.groups)) = appData.groups
              /\ appData'.groups[Len(appData'.groups)].ownerId = appData.userId
              /\ appData'.groups[Len(appData'.groups)].sharedTemplate =
                   appData.weeklyTemplate
              /\ appData'.weeklyTemplate = appData.weeklyTemplate
              /\ appData'.dailyLogs = appData.dailyLogs
              /\ appData'.activeSyncedGroupId = appData.activeSyncedGroupId
         ELSE appData' = appData]_vars

\* a group was created while the template was the one adopted from the
\* imported group
CreateGroupAppendsOneWitness ==
  /\ last = Op("createGroup", "changed")
  /\ Len(appData.groups) = 2
  /\ appData.groups[2].ownerId = appData.userId
  /\ appData.groups[2].sharedTemplate = TemplateB
  /\ appData.activeSyncedGroupId = ForeignGroupId

\* ------------------------------------------------------------------ the App
\* the handlers of ExerciseSetup that edit the template
TemplateEditOps ==
  {"saveTemplate", "handleTemplateExerciseChange", "handleClearTemplate",
   "handleFileUpload", "handleParseAndImportFullPlan"}

\* the last handler was one of them and did edit: the weekday was in the
\* draft, the pasted plan had days
TemplateEdited == last.op \in TemplateEditOps /\ last.ret \notin {"noday", "unparsed"}

\* C1: after saveTemplate, a change of the sets or reps of an exercise of a
\* day, the clearing of the template, the import of a day from a file and the
\* import of a pasted plan, activeSyncedGroupId of the document is unset,
\* whatever it was before.
DesyncOnEdit == TemplateEdited => appData.activeSyncedGroupId = Undefined

\* a row of the template adopted from a group was changed: the sync is
\* gone, and the draft is about to be reloaded because it went
DesyncOnEditWitness ==
  /\ last = Op("handleTemplateExerciseChange", "edited")
  /\ "reloadDraft" \in effects
  /\ appData.activeSyncedGroupId = Undefined
  /\ appData.weeklyTemplate = TemplateB
  /\ HasGroup(appData, ForeignGroupId)

\* C6: whenever no save is pending, what is stored is the document in
\* memory, whole.
SavedWhenIdle == "saveData" \notin effects => persisted = JSONstringify(appData)

\* nothing is pending and the stored document holds an exercise, a logged
\* day, a group and the sync with it
SavedWhenIdleWitness ==
  /\ effects = {}
  /\ persisted # NoDoc
  /\ "activeSyncedGroupId" \in DOMAIN persisted
  /\ persisted.activeSyncedGroupId = ForeignGroupId
  /\ persisted.dailyLogs = <<LogA>>
  /\ Len(persisted.exercises) = 1
  /\ persisted.weeklyTemplate = TemplateB

\* C8: a sync with a group is tracked until the next edit of the template:
\* activeSyncedGroupId, once set, changes only when the template is edited
\* (it is unset), when the template is synced with a group of the document
\* (it is that group's id) or when the group synced with is removed (it is
\* unset); every edit of the template unsets it.
SyncTrackedUntilEdit ==
  [][/\ /\ appData.activeSyncedGroupId # Undefined
        /\ appData'.activeSyncedGroupId # appData.activeSyncedGroupId
        => \/ /\ TemplateEdited'
              /\ appData'.activeSyncedGroupId = Undefined
           \/ /\ last'.op \in {"handleSyncTemplate", "handleResyncFromGroup"}
              /\ HasGroup(appData, appData'.activeSyncedGroupId)
           \/ /\ last'.op \in {"handleDeleteGroup", "handleLeaveGroup"}
              /\ ~HasGroup(appData', appData.activeSyncedGroupId)
              /\ appData'.activeSyncedGroupId = Undefined
     /\ TemplateEdited' => appData'.activeSyncedGroupId = Undefined]_vars

\* the user's own group was deleted and the sync with the imported group
\* is still there
SyncTrackedUntilEditWitness ==
  /\ last = Op("handleDeleteGroup", "changed")
  /\ appData.activeSyncedGroupId = ForeignGroupId
  /\ HasGroup(appData, ForeignGroupId)
  /\ Len(appData.groups) = 1
  /\ Len(appData.exercises) = 1
  /\ appData.dailyLogs = <<LogA>>

\* ------------------------------------------------------- the daily logs
\* the dates that the call which made this step wrote a log for
DatesSaved ==
  IF last'.op = "saveDayLog" THEN {last'.ret.date}
  ELSE IF last'.op \in {"debouncedPerformAutoSave", "changeWeek"} THEN last'.ret
  ELSE {}

StoredDates(data) == {data.dailyLogs[i].date : i \in 1..Len(data.dailyLogs)}

\* C11: dailyLogs is keyed by date.  After every manual save and autosave
\* the dates of dailyLogs ascend strictly (so no date has two logs), a save
\* adds a log only for a date that had none and otherwise replaces that
\* date's log, and the log of every date that was not saved is the one it
\* was before.
DailyLogsKeyedByDate ==
  [][/\ \A i, j \in 1..Len(appData'.dailyLogs) :
          i < j => appData'.dailyLogs[i].date < appData'.dailyLogs[j].date
     /\ StoredDates(appData') = StoredDates(appData) \cup DatesSaved
     /\ Len(appData'.dailyLogs) = Cardinality(StoredDates(appData) \cup DatesSaved)
     /\ \A d \in StoredDates(appData) \ DatesSaved :
          getDailyLog(appData', d) = getDailyLog(appData, d)]_vars

\* a manual save has replaced the log of a date while another date is stored
DailyLogsKeyedByDateWitness ==
  /\ last.op = "saveDayLog"
  /\ last.ret.replaced
  /\ Len(appData.dailyLogs) = 2

\* ------------------------------------------------------- the log editor
\* the sets that the template plans for one of its exercises
PlannedSets(te) ==
  [k \in 1..(IF te.targetSets \in {0, UndefNum} THEN 1 ELSE te.targetSets) |->
     ExerciseSet(k, <<>>,
                 IF te.targetReps = UndefStr THEN <<>> ELSE Chars(te.targetReps),
                 FALSE)]

\* the exercises that the template plans for a weekday
PlannedDay(data, dayOfWeek) ==
  LET d == FindIndex(Test(data.weeklyTemplate, LAMBDA td : td.dayOfWeek = dayOfWeek))
  IN IF d = 0 THEN <<>> ELSE data.weeklyTemplate[d].exercises

\* C12: the editor is seeded from the template.  Once WeeklyLog is mounted,
\* its log of a date without a stored log has one logged exercise for each
\* exercise that the template plans for the weekday of that date, in the
\* template's order, each with the planned number of sets (1 when targetSets
\* is 0 or missing) numbered from 1, not completed, with an empty weight
\* and the template's targetReps; its log of a date with a stored log is a
\* copy of the stored log.
EditorSeededFromTemplate ==
  isMounted =>
    \A i \in 1..Len(logsForWeek) :
      LET log == logsForWeek[i]
          planned == PlannedDay(appData, LocalWeekday(log.date))
      IN IF getDailyLog(appData, log.date) # NoLog
         THEN log = getDailyLog(appData, log.date)
         ELSE /\ Len(log.exercises) = Len(planned)
              /\ \A j \in 1..Len(planned) :
                   /\ log.exercises[j].exerciseId = planned[j].exerciseId
                   /\ log.exercises[j].sets = PlannedSets(planned[j])

\* the handlers that edit a log of the editor
LogEditOps ==
  {"handleSetChange", "handleExerciseNoteChange", "addSet", "removeSet",
   "processExerciseNameChange"}

\* the editor's log of a date, without its unfilled sets
EditedLog(date) ==
  LET at == FindIndex(Test(logsForWeek, LAMBDA log : log.date = date))
  IN IF at = 0 THEN NoLog ELSE CleanedLog(logsForWeek[at])

\* C13: debounced autosave.  An edit in the log editor puts the date of the
\* log it changed into the unsaved set, and a date leaves the unsaved set
\* only with that day's log, as edited, written into dailyLogs: no edit is
\* dropped before the autosave has persisted it.
AutosavePersistsEdits ==
  [][/\ (last'.op \in LogEditOps /\ last'.ret = "edited") =>
          \A i \in 1..Len(logsForWeek) :
            logsForWeek'[i] # logsForWeek[i] =>
              logsForWeek[i].date \in unsavedChangesDates'
     /\ \A d \in unsavedChangesDates \ unsavedChangesDates' :
          getDailyLog(appData', d) = EditedLog(d)]_vars

\* a set that is not completed and lacks a weight or reps
Unfilled(set) == ~set.completed /\ (trim(set.weight) = <<>> \/ trim(set.reps) = <<>>)

KeepFilled(sets) == SelectSeq(sets, LAMBDA set : ~Unfilled(set))

\* C14: manual per-day save.  After saveDayLog for a day, dailyLogs holds
\* exactly one log of that day's date: the editor's log of the day with the
\* same exercises and notes and, of each exercise, the sets that are not
\* unfilled; the date is not in the unsaved set; and the template, the
\* exercises, the groups and activeSyncedGroupId are what they were.
ManualSaveStoresDay ==
  [][last'.op = "saveDayLog" =>
       LET d == last'.ret.date
           at == FindIndex(Test(logsForWeek, LAMBDA log : log.date = d))
           stored == getDailyLog(appData', d)
       IN /\ Cardinality({i \in 1..Len(appData'.dailyLogs) :
                            appData'.dailyLogs[i].date = d}) = 1
          /\ Len(stored.exercises) = Len(logsForWeek[at].exercises)
          /\ \A j \in 1..Len(stored.exercises) :
               stored.exercises[j] =
                 [logsForWeek[at].exercises[j] EXCEPT !.sets = KeepFilled(@)]
          /\ d \notin unsavedChangesDates'
          /\ appData'.weeklyTemplate = appData.weeklyTemplate
          /\ appData'.exercises = appData.exercises
          /\ appData'.groups = appData.groups
          /\ appData'.activeSyncedGroupId = appData.activeSyncedGroupId]_vars

\* Monday was saved with a weight in its first set only: of its two sets
\* the second, unfilled, is not stored
ManualSaveStoresDayWitness ==
  /\ last.op = "saveDayLog"
  /\ last.ret.date = 8
  /\ getDailyLog(appData, 8) # NoLog
  /\ getDailyLog(appData, 8).exercises[1].sets =
       <<ExerciseSet(1, <<"5">>, <<"5">>, FALSE)>>

SetCounts(set) ==
  /\ parseFloat(set.weight) # NaN
  /\ parseFloat(set.weight) > 0
  /\ IsWholeNumber(trim(set.reps))
  /\ DecimalValue(trim(set.reps)) > 0

\* the estimates of the sets of a logged exercise that count
Estimates(loggedEx) ==
  {calculateEpley1RM(parseFloat(loggedEx.sets[k].weight),
                     DecimalValue(trim(loggedEx.sets[k].reps))) :
     k \in {k \in 1..Len(loggedEx.sets) : SetCounts(loggedEx.sets[k])}}

Greatest(S) == CHOOSE x \in S : \A y \in S : y <= x

\* the logged exercises that have a set that counts, log by log
RECURSIVE Charted(_, _, _)
Charted(logs, i, j) ==
  IF i > Len(logs) THEN <<>>
  ELSE IF j > Len(logs[i].exercises) THEN Charted(logs, i + 1, 1)
  ELSE (IF Estimates(logs[i].exercises[j]) # {} THEN << <<i, j>> >> ELSE <<>>)
         \o Charted(logs, i, j + 1)

\* the series has one point for each logged exercise with a set that
\* counts, in the order of the logs, and its dates ascend
SeriesFollowsLogs(series, Value(_, _)) ==
  LET charted == Charted(appData.dailyLogs, 1, 1)
  IN /\ Len(series) = Len(charted)
     /\ \A p \in 1..Len(series) :
          LET log == appData.dailyLogs[charted[p][1]]
              loggedEx == log.exercises[charted[p][2]]
          IN /\ series[p].date = log.date
             /\ series[p].exerciseName = loggedEx.name
             /\ Value(series[p].predicted1RM, Greatest(Estimates(loggedEx)))
     /\ \A p, q \in 1..Len(series) : p < q => series[p].date <= series[q].date

\* C16 as stated: calculate1RMData emits at most one point for each logged
\* exercise of each stored log, none when no set of it counts, whose value
\* is the greatest estimated 1RM over its sets that count (a value in
\* hundredths is three times as many thirtieths of a tenth); the points are
\* in ascending date order.
SeriesOfGreatestEstimates ==
  last.op = "calculate1RMData" =>
    SeriesFollowsLogs(last.ret, LAMBDA value, greatest : 3 * value = greatest)

\* C16, amended: the value of a point is the greatest estimated 1RM over
\* the sets that count, rounded to two decimals; the rest as stated.
SeriesOfRoundedEstimates ==
  last.op = "calculate1RMData" =>
    SeriesFollowsLogs(last.ret, LAMBDA value, greatest : value = toFixed2(greatest))

\* a set of 10 for 5 reps, estimated at 11.666..., is charted as 11.67
SeriesOfRoundedEstimatesWitness ==
  /\ last.op = "calculate1RMData"
  /\ Len(last.ret) = 1
  /\ last.ret[1].predicted1RM = 1167
  /\ Len(appData.dailyLogs[1].exercises[1].sets) = 2

\* ------------------------------------------------------------ the calendar
\* the sets that the template plans for a weekday: <<exercise, number>>
PlannedSlots(planned) ==
  {s \in (1..Len(planned)) \X (1..MAX_SETS_PER_EXERCISE) :
     s[2] <= planned[s[1]].targetSets}

\* the completed sets of the log that count toward the plan: those of the
\* logged exercise of a planned exercise that are numbered within its target
CountedSets(planned, log) ==
  IF log = NoLog THEN {}
  ELSE {s \in (1..Len(planned)) \X (1..MAX_SETS_PER_EXERCISE) :
          LET le == FindIndex(Test(log.exercises,
                                   LAMBDA ex : ex.exerciseId = planned[s[1]].exerciseId))
          IN /\ le # 0
             /\ s[2] <= Len(log.exercises[le].sets)
             /\ log.exercises[le].sets[s[2]].completed
             /\ log.exercises[le].sets[s[2]].setNumber <= planned[s[1]].targetSets}

\* the status that the plan of a weekday and the log of a date make
StatusOfDay(planned, log) ==
  LET totalPlanned == Cardinality(PlannedSlots(planned))
      totalCounted == Cardinality(CountedSets(planned, log))
  IN IF totalPlanned = 0 THEN "rest"
     ELSE IF totalCounted = 0 THEN "empty"
     ELSE IF totalCounted < totalPlanned THEN "partial"
     ELSE "completed"

\* C17: the calendar status of a day is 'rest' when the template of its
\* weekday has no exercises or plans no sets; otherwise 'empty' when no
\* completed set of the log of that day counts toward the plan (or no log
\* is stored for it), 'partial' when the completed sets within the targets
\* are fewer than the planned sets, and 'completed' when they are as many;
\* completed sets numbered beyond the target of their exercise do not count.
CalendarStatusOfDay ==
  last.op = "getDayStatus" =>
    last.ret = StatusOfDay(PlannedDay(appData, LocalWeekday(args.date.day)),
                           getDailyLog(appData, args.date.day))

\* the same for the days whose local midnight falls on the same day in UTC
CalendarStatusWestOfGreenwich ==
  (last.op = "getDayStatus" /\ args.date.utc = 0) =>
    last.ret = StatusOfDay(PlannedDay(appData, LocalWeekday(args.date.day)),
                           getDailyLog(appData, args.date.day))

\* ----------------------------------------------------------- the plan text
\* the lines of the pasted text
PastedLines ==
  LET untrimmed == split(trim(args), "\n")
  IN [i \in 1..Len(untrimmed) |-> trimEnd(untrimmed[i])]

\* the weekdays that a line names when it is nothing but the name
WeekdaysNamed(line) ==
  {d \in 0..(NumDays - 1) :
     toLowerCase(trim(line)) = toLowerCase(DAYS_OF_WEEK[d + 1])}

\* the weekday label line: the first of the first 5 lines that names a
\* weekday, 0 when none does
LabelLine ==
  LET named == {i \in 1..Len(PastedLines) : i <= 5 /\ WeekdaysNamed(PastedLines[i]) # {}}
  IN IF named = {} THEN 0 ELSE CHOOSE i \in named : \A j \in named : i <= j

\* the lines after the label line that contain all of the words
LinesWith(words) ==
  {i \in (LabelLine + 1)..Len(PastedLines) :
     \A w \in words : includes(toLowerCase(PastedLines[i]), Text(w))}

\* the header row: the first line with the three words, or else the first
\* with "movement" and "sets"; 0 when there is none
HeaderRow ==
  LET full == LinesWith({"movement", "sets", "reps"})
      short == LinesWith({"movement", "sets"})
  IN IF full # {} THEN CHOOSE i \in full : \A j \in full : i <= j
     ELSE IF short # {} THEN CHOOSE i \in short : \A j \in short : i <= j
     ELSE 0

\* every exercise of the plan is read from a line below the given one
ReadBelow(plan, row) ==
  \A e \in 1..Len(plan) : \A j \in 1..Len(plan[e].exercises) :
    \E i \in (row + 1)..Len(PastedLines) :
      includes(PastedLines[i], plan[e].exercises[j].name)

ColumnDays == <<1, 2, 4, 5>>

\* the part of a line that lies in the k-th "movement" column of the header
ColumnPart(line, k) ==
  LET starts == ColStarts(PastedLines[HeaderRow], 1)
  IN SubSeq(line, starts[k],
            IF k < Len(starts) /\ starts[k + 1] - 1 < Len(line)
            THEN starts[k + 1] - 1 ELSE Len(line))

\* C19: when one of the first 5 lines is the name of a weekday, every day
\* of the result is that weekday; otherwise the exercises of the k-th
\* "movement" column (k = 1..4) are those of Monday, Tuesday, Thursday and
\* Friday, further columns yield nothing, and a day without exercises is
\* absent.  In both modes a day occurs once, its exercises are numbered 0,
\* 1, 2, ... as they come, and each has a name and 1 to 99 target sets.
PlanDayAssignment ==
  last.op = "parseFullWorkoutPlanFromText" =>
    LET plan == last.ret
    IN /\ \A e \in 1..Len(plan) : \A j \in 1..Len(plan[e].exercises) :
            /\ plan[e].exercises[j].originalIndex = j - 1
            /\ plan[e].exercises[j].name # <<>>
            /\ plan[e].exercises[j].targetSets \in 1..99
       /\ \A e, f \in 1..Len(plan) : plan[e].dayOfWeek = plan[f].dayOfWeek => e = f
       /\ IF LabelLine # 0
          THEN \A e \in 1..Len(plan) :
                 plan[e].dayOfWeek \in WeekdaysNamed(PastedLines[LabelLine])
          ELSE \A e \in 1..Len(plan) :
                 /\ plan[e].exercises # <<>>
                 /\ \E k \in 1..Len(ColumnDays) :
                      /\ plan[e].dayOfWeek = ColumnDays[k]
                      /\ k <= Len(ColStarts(PastedLines[HeaderRow], 1))
                      /\ \A j \in 1..Len(plan[e].exercises) :
                           \E i \in (HeaderRow + 1)..Len(PastedLines) :
                             includes(ColumnPart(PastedLines[i], k),
                                      plan[e].exercises[j].name)

\* a table of five columns gives Monday, Tuesday, Thursday and Friday, and
\* Monday two exercises
PlanDayAssignmentWitness ==
  /\ last.op = "parseFullWorkoutPlanFromText"
  /\ LabelLine = 0
  /\ HeaderRow # 0
  /\ Len(ColStarts(PastedLines[HeaderRow], 1)) = 5
  /\ Len(last.ret) = 4
  /\ Len(last.ret[1].exercises) = 2

\* ---------------------------------------------------------------- the tabs
\* the operations by which a tab changes its own document
TabEditOps == {"loadData", "handleAddExerciseManually", "saveDayLog", "saveData"}

\* localStorage holds the whole document of the tab that saved last, once
\* that tab has run its effects
LastWriteStored ==
  (lastSaver # 0 /\ tabs[lastSaver].effects = {}) =>
    persisted = saveData(tabs[lastSaver].appData)

\* a save writes the whole document of its tab, and the document of a tab
\* changes by an operation of that tab only, never by a render or by a
\* step of the other tab
OwnChangesOnly ==
  /\ last'.op = "saveData" => persisted' = saveData(tabs[last'.ret].appData)
  /\ \A t \in Tabs :
       (tabs[t].mounted /\ tabs'[t].appData # tabs[t].appData) =>
         (last'.op \in TabEditOps /\ last'.ret = t)

\* C20: independent tabs resolve by last write wins.  Every save overwrites
\* the whole persisted document with the document of the saving tab, so
\* that localStorage holds the document of the tab that saved last; after
\* its initial load a tab's document changes through its own operations
\* only, and is never replaced by or merged with what the other tab saved.
TabsLastWriteWins == [](tabs # <<>> => LastWriteStored) /\ [][tabs # <<>> => OwnChangesOnly]_vars

\* both tabs loaded the same document, each added an exercise of its own
\* and saved, tab 2 last: localStorage holds the document of tab 2, without
\* the exercise of tab 1
TabsLastWriteWinsWitness ==
  /\ tabs # <<>>
  /\ TabIdle(1) /\ TabIdle(2)
  /\ tabs[1].loaded = tabs[2].loaded
  /\ tabs[1].loaded # NoDoc
  /\ lastSaver = 2
  /\ Len(tabs[1].appData.exercises) = 1
  /\ Len(tabs[2].appData.exercises) = 1
  /\ tabs[1].appData.exercises # tabs[2].appData.exercises
  /\ persisted = saveData(tabs[2].appData)
  /\ persisted # saveData(tabs[1].appData)

\* ------------------------------------------------------- groups, continued
\* is the group with this id in the document and owned by its user
OwnsGroup(data, groupId) ==
  \E i \in 1..Len(data.groups) :
     data.groups[i].id = groupId /\ data.groups[i].ownerId = data.userId

\* C21: updateGroupSharedTemplate puts a copy of the weeklyTemplate in the
\* group with the given id only when that group is in the document and its
\* ownerId is the userId of the document, and then every other group, the
\* weeklyTemplate and activeSyncedGroupId stay as they were; when the group
\* is missing or owned by another user the document stays as it was.
OnlyOwnerRepublishes ==
  [][\A groupId \in GroupIdInputs :
       last'.op = "updateGroupSharedTemplate" /\ CallUpdateGroupSharedTemplate(groupId) =>
         IF OwnsGroup(appData, groupId)
         THEN /\ Len(appData'.groups) = Len(appData.groups)
              /\ \A i \in 1..Len(appData.groups) :
                    IF appData.groups[i].id = groupId
                    THEN /\ appData'.groups[i].sharedTemplate = appData.weeklyTemplate
                         /\ appData'.groups[i].id = groupId
                         /\ appData'.groups[i].ownerId = appData.userId
                    ELSE appData'.groups[i] = appData.groups[i]
              /\ [appData' EXCEPT !.groups = appData.groups] = appData
         ELSE appData' = appData]_vars

\* the owner shared a later template with the own group while the group of
\* another user, which the template is synced with, kept its own
OnlyOwnerRepublishesWitness ==
  /\ last = Op("updateGroupSharedTemplate", "changed")
  /\ appData.weeklyTemplate = TemplateB
  /\ appData.activeSyncedGroupId = ForeignGroupId
  /\ \E i, j \in 1..Len(appData.groups) :
       /\ appData.groups[i].ownerId = appData.userId
       /\ appData.groups[i].sharedTemplate = TemplateB
       /\ appData.groups[i].lastUpdated = 2
       /\ appData.groups[j].id = ForeignGroupId
       /\ appData.groups[j].sharedTemplate = ShortTemplate

\* the export of a group with one of its six keys left out
MissingKeyImports ==
  {[k \in GroupKeys \ {key} |-> FullImport[k]] : key \in GroupKeys}

\* C22: addGroupFromImport on text that is not JSON, or on a record that
\* lacks one of id, name, ownerId, inviteCode, sharedTemplate and
\* lastUpdated, returns an error and the document it was given, and the
\* import of GroupManagement then leaves the in-memory document, the stored
\* one and the pending effects as they were.
ImportRejectsBadInput ==
  /\ [](\A json \in {InvalidJSON} \cup MissingKeyImports \cup BrokenImports :
          /\ addGroupFromImport(appData, json).newData = appData
          /\ addGroupFromImport(appData, json).error =
                IF json = InvalidJSON THEN ErrParse ELSE ErrFormat)
  /\ [][\A json \in UiImportInputs :
          /\ last'.op = "handleImportGroupData"
          /\ handleImportGroupData(json)
          /\ json \in {InvalidJSON} \cup MissingKeyImports
          => /\ last'.ret \in {ErrParse, ErrFormat}
             /\ UNCHANGED <<appData, effects, persisted>>]_vars

\* a record without its sharedTemplate was pasted into a document that
\* holds a group already, and nothing was imported
ImportRejectsBadInputWitness ==
  /\ last = Op("handleImportGroupData", ErrFormat)
  /\ Len(appData.groups) = 1
  /\ persisted = saveData(appData)

\* C23: the import of a group whose id is in groups adds no entry: the local
\* copy becomes the imported one only when the imported lastUpdated is
\* later and the local copy is not owned by the user, otherwise an error is
\* returned and the document stays as it was; so no two groups of the
\* document share an id, and an import changes no group owned by the user.
ImportNeverDuplicates ==
  /\ [](\A i, j \in 1..Len(appData.groups) :
          appData.groups[i].id = appData.groups[j].id => i = j)
  /\ [][\A json \in WellFormedImports \cup OwnExports :
          last'.op = "addGroupFromImport" /\ CallAddGroupFromImport(json) =>
            /\ \A i \in 1..Len(appData.groups) :
                  appData.groups[i].id = json.id =>
                    /\ Len(appData'.groups) = Len(appData.groups)
                    /\ IF /\ json.lastUpdated > appData.groups[i].lastUpdated
                          /\ appData.groups[i].ownerId # appData.userId
                       THEN /\ appData' = [appData EXCEPT !.groups[i] = json]
                            /\ last'.ret = NoError
                       ELSE /\ appData' = appData
                            /\ last'.ret = ErrExists
            /\ \A i \in 1..Len(appData.groups) :
                  appData.groups[i].ownerId = appData.userId =>
                    /\ i <= Len(appData'.groups)
                    /\ appData'.groups[i] = appData.groups[i]]_vars

\* a later export of the own group was pasted and refused after the later
\* copy of the group of another user had replaced the local one
ImportNeverDuplicatesWitness ==
  /\ last = Op("addGroupFromImport", ErrExists)
  /\ Len(appData.groups) = 2
  /\ \E i, j \in 1..2 :
       /\ appData.groups[i].ownerId = appData.userId
       /\ appData.groups[i].lastUpdated < MaxClock + 1
       /\ appData.groups[i].sharedTemplate = EmptyTemplate
       /\ appData.groups[j] = NewerImport

\* C24: removeGroup takes the group with the given id out of groups and
\* nothing else, unsets activeSyncedGroupId exactly when it named that
\* group, and leaves weeklyTemplate, dailyLogs and exercises as they were;
\* so activeSyncedGroupId is unset or the id of a group of the document.
SyncPointerValid ==
  /\ [](appData.activeSyncedGroupId = Undefined
          \/ HasGroup(appData, appData.activeSyncedGroupId))
  /\ [][\A groupId \in GroupIdInputs :
          last'.op = "removeGroup" /\ CallRemoveGroup(groupId) =>
            /\ appData'.groups = SelectSeq(appData.groups, LAMBDA g : g.id # groupId)
            /\ ~HasGroup(appData', groupId)
            /\ Len(appData'.groups) >= Len(appData.groups) - 1
            /\ appData'.activeSyncedGroupId =
                  IF appData.activeSyncedGroupId = groupId THEN Undefined
                  ELSE appData.activeSyncedGroupId
            /\ appData'.weeklyTemplate = appData.weeklyTemplate
            /\ appData'.dailyLogs = appData.dailyLogs
            /\ appData'.exercises = appData.exercises]_vars

\* the group synced with was removed while the own group stayed: the
\* template adopted from it is now a local one
SyncPointerValidWitness ==
  /\ last = Op("removeGroup", "changed")
  /\ appData.activeSyncedGroupId = Undefined
  /\ appData.weeklyTemplate = TemplateB
  /\ Len(appData.groups) = 1
  /\ ~HasGroup(appData, ForeignGroupId)
  /\ appData.dailyLogs = <<LogA>>

\* C25: whenever activeSyncedGroupId names a group of the document, the
\* weeklyTemplate equals the sharedTemplate that group holds now.
SyncedMarkerTruthful ==
  \A i \in 1..Len(appData.groups) :
     appData.groups[i].id = appData.activeSyncedGroupId =>
       appData.weeklyTemplate = appData.groups[i].sharedTemplate

\* the marker is truthful right after the sync and after the owner of the
\* group shared the weekly template again
SyncedMarkerTruthfulAtSync ==
  [][\/ last' = Op("applyGroupTemplateToUser", "changed")
     \/ last'.op = "updateGroupSharedTemplate" /\ SyncedMarkerTruthful
     => SyncedMarkerTruthful']_vars

\* ------------------------------------------------ the draft of the template
\* the handlers of Setup that edit the draft: a change of sets or reps or
\* an exercise added to a day, the clearing, and the two imports
DraftEditOps ==
  {"handleTemplateExerciseChange", "handleClearTemplate",
   "handleParseAndImportFullPlan", "handleFileUpload"}

\* the effects of the render that follows an edit of the draft run
EffectsAfterDraftEdit ==
  /\ last.op \in DraftEditOps
  /\ effects # {}
  /\ effects' = {}

\* C26: when the template is synced with a group and the user edits the
\* draft, then after the desync and the effects of that render the draft
\* still holds the edit and activeSyncedGroupId is unset.
LocalEditKeptInDraft ==
  [][EffectsAfterDraftEdit =>
       /\ editingTemplate' = editingTemplate
       /\ appData'.activeSyncedGroupId = Undefined]_vars

\* what those effects do when the edit broke a sync: the draft is the
\* stored weeklyTemplate again, and activeSyncedGroupId is unset
SyncedEditReloadsDraft ==
  [][EffectsAfterDraftEdit =>
       /\ "reloadDraft" \in effects => editingTemplate' = appData.weeklyTemplate
       /\ "reloadDraft" \notin effects => editingTemplate' = editingTemplate
       /\ appData'.activeSyncedGroupId = Undefined]_vars

\* ------------------------------------------------- the editor, continued
\* C27: when a day of the week shown has unsaved edits in the editor and
\* the user saves another day, the edits of the first are in the editor
\* afterwards.
SaveKeepsOtherDays ==
  [][last'.op = "saveDayLog" =>
       \A i \in 1..Len(logsForWeek) :
          /\ logsForWeek[i].date \in unsavedChangesDates
          /\ logsForWeek[i].date # last'.ret.date
          => logsForWeek'[i] = logsForWeek[i]]_vars

\* what the editor holds after a save: every day as the stored document or
\* the template gives it, the days with unsaved edits included, which stay
\* in the unsaved set
SaveInitializesEveryDay ==
  [][last'.op = "saveDayLog" =>
       /\ logsForWeek' = InitializeLogs(appData', currentWeekStart)
       /\ unsavedChangesDates' = unsavedChangesDates \ {last'.ret.date}]_vars

\* the sets of every exercise of the logs are numbered 1, 2, ... in order
NumberedInOrder(logs) ==
  \A i \in 1..Len(logs) :
     \A e \in 1..Len(logs[i].exercises) :
        \A k \in 1..Len(logs[i].exercises[e].sets) :
           logs[i].exercises[e].sets[k].setNumber = k

\* C28: for every logged exercise, in the editor and in the stored
\* document, the sets carry the set numbers 1..n in order.
SetNumbersWellFormed ==
  /\ NumberedInOrder(logsForWeek)
  /\ NumberedInOrder(appData.dailyLogs)

\* the handlers of the editor keep the numbering of an editor that has it
SetNumbersKeptByEdits ==
  [][/\ NumberedInOrder(logsForWeek)
     /\ last'.op \in {"handleSetChange", "handleExerciseNoteChange", "addSet",
                      "removeSet", "processExerciseNameChange"}
     => NumberedInOrder(logsForWeek')]_vars

\* no exercise of the logs has more sets than MAX_SETS_PER_EXERCISE
WithinMaxSets(logs) ==
  \A i \in 1..Len(logs) :
     \A e \in 1..Len(logs[i].exercises) :
        Len(logs[i].exercises[e].sets) <= MAX_SETS_PER_EXERCISE

\* C29: no logged exercise in the editor or in the stored document has
\* more than MAX_SETS_PER_EXERCISE (10) sets, whatever targetSets the
\* template has.
NeverMoreThanMaxSets ==
  /\ WithinMaxSets(logsForWeek)
  /\ WithinMaxSets(appData.dailyLogs)

\* addSet adds a set only to an exercise of fewer than
\* MAX_SETS_PER_EXERCISE sets, and then one set
AddSetBelowMaxOnly ==
  [][last'.op = "addSet" =>
       \A i \in 1..Len(logsForWeek) :
          \A e \in 1..Len(logsForWeek[i].exercises) :
             LET before == Len(logsForWeek[i].exercises[e].sets)
                 after == Len(logsForWeek'[i].exercises[e].sets)
             IN /\ after \in {before, before + 1}
                /\ after = before + 1 => before < MAX_SETS_PER_EXERCISE]_vars

\* the set is completed, or has a weight and reps that are not blank
StoredAsFilled(set) ==
  set.completed \/ (trim(set.weight) # <<>> /\ trim(set.reps) # <<>>)

\* the operations of the editor that write logs into the document
LogSaveOps == {"saveDayLog", "debouncedPerformAutoSave", "changeWeek"}

\* C30: every set of every log that a manual save or an autosave writes
\* into the document is completed or has both a weight and reps that are
\* not blank; the written log has the exercises of the editor's log of its
\* date, each with exactly those of its sets, also when none is left.
OnlyFilledSetsStored ==
  [][last'.op \in LogSaveOps =>
       \A i \in 1..Len(appData'.dailyLogs) :
          LET stored == appData'.dailyLogs[i]
              at == FindIndex(Test(logsForWeek, LAMBDA log : log.date = stored.date))
          IN (\A k \in 1..Len(appData.dailyLogs) : appData.dailyLogs[k] # stored) =>
               /\ at # 0
               /\ Len(stored.exercises) = Len(logsForWeek[at].exercises)
               /\ \A j \in 1..Len(stored.exercises) :
                     LET shown == logsForWeek[at].exercises[j]
                         kept == {k \in 1..Len(shown.sets) : StoredAsFilled(shown.sets[k])}
                     IN /\ stored.exercises[j].exerciseId = shown.exerciseId
                        /\ stored.exercises[j].name = shown.name
                        /\ \A k \in 1..Len(stored.exercises[j].sets) :
                              StoredAsFilled(stored.exercises[j].sets[k])
                        /\ Len(stored.exercises[j].sets) = Cardinality(kept)
                        /\ \A k \in kept :
                              \E n \in 1..Len(stored.exercises[j].sets) :
                                 stored.exercises[j].sets[n] = shown.sets[k]]_vars

\* an autosave wrote Monday with the one of its two sets that has a weight,
\* and Tuesday with its exercise and none of its sets
OnlyFilledSetsStoredWitness ==
  /\ last.op = "debouncedPerformAutoSave"
  /\ last.ret = {8, 9}
  /\ getDailyLog(appData, 8) # NoLog
  /\ getDailyLog(appData, 9) # NoLog
  /\ getDailyLog(appData, 8).exercises[1].sets =
       <<ExerciseSet(2, <<"5">>, <<"5">>, FALSE)>>
  /\ Len(getDailyLog(appData, 9).exercises) = 1
  /\ getDailyLog(appData, 9).exercises[1].sets = <<>>

=============================================================================
